---- MODULE Spec2Model ----
(***************************************************************************)
(* Laura-Core: board representation, legal move generator, move            *)
(* application, FEN parsing/rendering and incremental Zobrist hashing.     *)
(*                                                                         *)
(* A BitBoard (u64) is modelled as the set of the squares whose bit is     *)
(* set; a Square is its index 0..63 (A1 = 0, H8 = 63); a Color is 0        *)
(* (White) or 1 (Black); a Piece is its discriminant 0..11; a Move is the  *)
(* packed 16-bit integer.  A Zobrist value is modelled as the set of the   *)
(* keys that have been XOR-ed in an odd number of times, so XOR with a key *)
(* is the symmetric difference with that key.                              *)
(***************************************************************************)
EXTENDS Integers, Sequences, FiniteSets, TLC

(***************************************************************************)
(* Bounds of the model.                                                    *)
(***************************************************************************)
MaxPly == 1
MaxUciPly == 256
MaxVaried == 2
MaxGamePly == 2

(***************************************************************************)
(* square.rs, file.rs, rank.rs, color.rs, piece.rs                         *)
(***************************************************************************)
NUM_SQUARES == 64
Squares == 0 .. (NUM_SQUARES - 1)
NoSquare == 64
NoPiece == 12

White == 0
Black == 1
Not(color) == 1 - color

PAWN == 0
KNIGHT == 1
BISHOP == 2
ROOK == 3
QUEEN == 4
KING == 5

file(s) == s % 8
rank(s) == s \div 8
from_file_rank(f, r) == ((r * 8) + f) % 64

up(s) == (s + 8) % 64
down(s) == (s + 56) % 64
left(s) == (s + 63) % 64
right(s) == (s + 1) % 64
sq_forward_stay(s, color) == s
sq_forward(s, color) == IF color = White THEN up(s) ELSE down(s)
sq_backward(s, color) == IF color = White THEN down(s) ELSE up(s)
right_color(s, color) == IF color = White THEN right(s) ELSE left(s)
left_color(s, color) == IF color = White THEN left(s) ELSE right(s)

Piece_new(piece_type, color) == (color * 6) + piece_type
piece_index(p) == p % 6
piece_color(p) == IF p < 6 THEN White ELSE Black

PieceChars == <<"P", "N", "B", "R", "Q", "K", "p", "n", "b", "r", "q", "k">>
to_char(p) == PieceChars[p + 1]
Piece_try_from(c) ==
  IF \E i \in 1 .. 12 : PieceChars[i] = c
    THEN (CHOOSE i \in 1 .. 12 : PieceChars[i] = c) - 1
    ELSE NoPiece

PROM_PIECES == <<<<1, 2, 3, 4>>, <<7, 8, 9, 10>>>>

FileChars == <<"a", "b", "c", "d", "e", "f", "g", "h">>
RankChars == <<"1", "2", "3", "4", "5", "6", "7", "8">>
square_to_str(s) == <<FileChars[file(s) + 1], RankChars[rank(s) + 1]>>
Square_from_str(cs) ==
  IF Len(cs) # 2 THEN NoSquare
  ELSE IF \E s \in Squares : square_to_str(s) = cs
    THEN CHOOSE s \in Squares : square_to_str(s) = cs
    ELSE NoSquare

(***************************************************************************)
(* bitboard.rs                                                             *)
(***************************************************************************)
EMPTY == {}
FULL == Squares
RANK_2 == {s \in Squares : rank(s) = 1}
RANK_3 == {s \in Squares : rank(s) = 2}
RANK_6 == {s \in Squares : rank(s) = 5}
RANK_7 == {s \in Squares : rank(s) = 6}

bb_forward(bb, side) ==
  IF side = White THEN {s + 8 : s \in {x \in bb : x + 8 <= 63}}
  ELSE {s - 8 : s \in {x \in bb : x >= 8}}
bb_up_left(bb, side) ==
  IF side = White THEN {s + 7 : s \in {x \in bb : file(x) # 0 /\ x + 7 <= 63}}
  ELSE {s - 7 : s \in {x \in bb : file(x) # 7 /\ x >= 7}}
bb_up_right(bb, side) ==
  IF side = White THEN {s + 9 : s \in {x \in bb : file(x) # 7 /\ x + 9 <= 63}}
  ELSE {s - 9 : s \in {x \in bb : file(x) # 0 /\ x >= 9}}

\* Iterator for BitBoard: the squares in ascending index order.
Iter(bb) ==
  [i \in 1 .. Cardinality(bb) |->
     CHOOSE x \in bb : Cardinality({y \in bb : y < x}) = i - 1]
\* BitBoard::to_square: the square of the least significant set bit, None
\* (NoSquare) for the empty board.
to_square(bb) ==
  IF bb = EMPTY THEN NoSquare ELSE CHOOSE x \in bb : \A y \in bb : x <= y

RECURSIVE Concat(_)
Concat(ss) == IF ss = <<>> THEN <<>> ELSE Head(ss) \o Concat(Tail(ss))

(***************************************************************************)
(* gen/king.rs, gen/knight.rs, gen/pawn.rs: leaper attack tables           *)
(***************************************************************************)
KING_DELTAS ==
  {<<-1, -1>>, <<-1, 0>>, <<-1, 1>>, <<0, -1>>, <<0, 1>>, <<1, -1>>, <<1, 0>>, <<1, 1>>}
KNIGHT_DELTAS ==
  {<<-2, -1>>, <<-2, 1>>, <<-1, -2>>, <<-1, 2>>, <<1, -2>>, <<1, 2>>, <<2, -1>>, <<2, 1>>}
WHITE_PAWN_DELTAS == {<<1, -1>>, <<1, 1>>}
BLACK_PAWN_DELTAS == {<<-1, -1>>, <<-1, 1>>}

gen_leaper_attacks(deltas, s) ==
  {from_file_rank(file(s) + d[2], rank(s) + d[1]) :
     d \in {e \in deltas : /\ rank(s) + e[1] \in 0 .. 7
                           /\ file(s) + e[2] \in 0 .. 7}}

KING_ATTACKS == [s \in Squares |-> gen_leaper_attacks(KING_DELTAS, s)]
KNIGHT_ATTACKS == [s \in Squares |-> gen_leaper_attacks(KNIGHT_DELTAS, s)]
PAWN_ATTACKS ==
  [c \in {White, Black} |->
     [s \in Squares |->
        gen_leaper_attacks(IF c = White THEN WHITE_PAWN_DELTAS ELSE BLACK_PAWN_DELTAS, s)]]

get_king_attacks(s) == KING_ATTACKS[s]
get_knight_attacks(s) == KNIGHT_ATTACKS[s]
get_pawn_attacks(color, s) == PAWN_ATTACKS[color][s]

(***************************************************************************)
(* gen/sliders.rs, gen/black_magics.rs, gen/rays.rs, build_dep/between.rs  *)
(***************************************************************************)
ROOK_DELTAS == <<<<1, 0>>, <<0, -1>>, <<-1, 0>>, <<0, 1>>>>
BISHOP_DELTAS == <<<<1, 1>>, <<1, -1>>, <<-1, -1>>, <<-1, 1>>>>

\* The squares walked from s in direction d up to the board edge, in order.
RayWalk(s, d) ==
  LET n == CHOOSE k \in 0 .. 7 :
             /\ \A j \in 1 .. k : /\ rank(s) + (j * d[1]) \in 0 .. 7
                                  /\ file(s) + (j * d[2]) \in 0 .. 7
             /\ ~ (/\ rank(s) + ((k + 1) * d[1]) \in 0 .. 7
                   /\ file(s) + ((k + 1) * d[2]) \in 0 .. 7)
  IN [j \in 1 .. n |-> from_file_rank(file(s) + (j * d[2]), rank(s) + (j * d[1]))]

ROOK_WALKS == [s \in Squares |-> [i \in 1 .. 4 |-> RayWalk(s, ROOK_DELTAS[i])]]
BISHOP_WALKS == [s \in Squares |-> [i \in 1 .. 4 |-> RayWalk(s, BISHOP_DELTAS[i])]]

\* Slider::moves: along each delta, every square up to and including the
\* first blocker.
Slider_moves(walks, s, blockers) ==
  UNION {{walks[s][i][j] : j \in {k \in 1 .. Len(walks[s][i]) :
                                     \A l \in 1 .. (k - 1) : walks[s][i][l] \notin blockers}} :
           i \in 1 .. 4}

get_rook_attacks(s, blockers) == Slider_moves(ROOK_WALKS, s, blockers)
get_bishop_attacks(s, blockers) == Slider_moves(BISHOP_WALKS, s, blockers)

ROOK_RAYS == [s \in Squares |-> Slider_moves(ROOK_WALKS, s, EMPTY)]
BISHOP_RAYS == [s \in Squares |-> Slider_moves(BISHOP_WALKS, s, EMPTY)]
get_rook_rays(s) == ROOK_RAYS[s]
get_bishop_rays(s) == BISHOP_RAYS[s]

(***************************************************************************)
(* Black magic bitboards: build_dep/black_magics.rs fills the one shared   *)
(* attack table at build time, gen/black_magics.rs reads it.  A u64 is     *)
(* kept as five 13-bit limbs, least significant first, so that no product  *)
(* leaves the 32-bit integers of TLC; a bitboard becomes a u64 by to_u64. *)
(* The magic numbers are those of ROOK_BLACK_MAGICS and                    *)
(* BISHOP_BLACK_MAGICS of the build, limb by limb.  get_rook_attacks and   *)
(* get_bishop_attacks above stand for the ray walk the table is filled     *)
(* with; magic_lookup below is the table read itself.                      *)
(***************************************************************************)
LIMB == 2 ^ 13
ROOK_SHIFT == 12
BISHOP_SHIFT == 9
TABLE_SIZE == 87988

ROOK_BLACK_MAGICS ==
  <<[magic |-> <<8191, 7207, 1279, 4096, 2050>>, offset |-> 10890],
    [magic |-> <<8191, 6067, 8063, 6141, 1535>>, offset |-> 50579],
    [magic |-> <<8191, 8175, 8187, 8181, 4094>>, offset |-> 62020],
    [magic |-> <<138, 6144, 1024, 1, 3>>, offset |-> 67322],
    [magic |-> <<35, 640, 4, 5, 5>>, offset |-> 80251],
    [magic |-> <<32, 1280, 2120, 2, 2>>, offset |-> 58503],
    [magic |-> <<48, 1536, 6144, 0, 3>>, offset |-> 51175],
    [magic |-> <<2, 5504, 5633, 4096, 5>>, offset |-> 83130],
    [magic |-> <<8188, 8023, 7934, 8175, 2043>>, offset |-> 50430],
    [magic |-> <<2, 2088, 32, 40, 0>>, offset |-> 21613],
    [magic |-> <<72, 7168, 16, 48, 0>>, offset |-> 72625],
    [magic |-> <<8120, 4351, 0, 8144, 2047>>, offset |-> 80755],
    [magic |-> <<8111, 7807, 8095, 8095, 4095>>, offset |-> 69753],
    [magic |-> <<96, 192, 48, 48, 0>>, offset |-> 26973],
    [magic |-> <<24, 7808, 23, 48, 1272>>, offset |-> 84972],
    [magic |-> <<24, 784, 12, 48, 0>>, offset |-> 31958],
    [magic |-> <<3, 2144, 1536, 0, 3>>, offset |-> 69272],
    [magic |-> <<8191, 1071, 768, 1536, 0>>, offset |-> 48372],
    [magic |-> <<8183, 8183, 7678, 7167, 4095>>, offset |-> 65477],
    [magic |-> <<8191, 0, 6143, 1023, 2044>>, offset |-> 43972],
    [magic |-> <<8191, 4094, 6143, 7679, 4095>>, offset |-> 57154],
    [magic |-> <<6175, 6143, 495, 256, 1985>>, offset |-> 53521],
    [magic |-> <<2064, 7936, 495, 256, 516>>, offset |-> 30534],
    [magic |-> <<256, 770, 342, 256, 64>>, offset |-> 16548],
    [magic |-> <<8, 64, 4, 64, 4>>, offset |-> 46407],
    [magic |-> <<4, 32, 2, 4, 1>>, offset |-> 11841],
    [magic |-> <<8183, 8159, 8189, 7165, 4095>>, offset |-> 21112],
    [magic |-> <<8185, 2039, 8190, 7931, 4075>>, offset |-> 44214],
    [magic |-> <<8160, 15, 8184, 1, 3072>>, offset |-> 57925],
    [magic |-> <<1987, 7168, 1, 62, 1199>>, offset |-> 29574],
    [magic |-> <<8063, 6977, 8190, 6133, 3071>>, offset |-> 17309],
    [magic |-> <<64, 4225, 8190, 4076, 128>>, offset |-> 40143],
    [magic |-> <<48, 384, 6656, 17, 512>>, offset |-> 64659],
    [magic |-> <<24, 192, 480, 1, 0>>, offset |-> 70469],
    [magic |-> <<24, 192, 192, 2, 0>>, offset |-> 62917],
    [magic |-> <<24, 192, 96, 1, 1024>>, offset |-> 60997],
    [magic |-> <<8186, 47, 3136, 256, 8>>, offset |-> 18554],
    [magic |-> <<6, 48, 64, 49, 1024>>, offset |-> 14385],
    [magic |-> <<8191, 7677, 8191, 8190, 4095>>, offset |-> 0],
    [magic |-> <<64, 256, 2048, 256, 0>>, offset |-> 38091],
    [magic |-> <<2048, 1, 187, 4, 512>>, offset |-> 25122],
    [magic |-> <<5119, 2047, 8159, 8179, 4095>>, offset |-> 60083],
    [magic |-> <<6144, 7168, 4114, 0, 0>>, offset |-> 72209],
    [magic |-> <<4096, 510, 3064, 0, 512>>, offset |-> 67875],
    [magic |-> <<4093, 5118, 7167, 8190, 4095>>, offset |-> 56290],
    [magic |-> <<4095, 7680, 8175, 4063, 3071>>, offset |-> 43807],
    [magic |-> <<2052, 5, 1026, 0, 0>>, offset |-> 73365],
    [magic |-> <<6149, 2, 662, 2048, 1541>>, offset |-> 76398],
    [magic |-> <<40, 2216, 64, 4608, 130>>, offset |-> 20024],
    [magic |-> <<20, 1104, 320, 1, 0>>, offset |-> 9513],
    [magic |-> <<40, 516, 2752, 0, 2048>>, offset |-> 24324],
    [magic |-> <<40, 968, 2064, 0, 1024>>, offset |-> 22996],
    [magic |-> <<40, 324, 2052, 0, 1920>>, offset |-> 23213],
    [magic |-> <<24, 1796, 1536, 0, 0>>, offset |-> 56002],
    [magic |-> <<72, 7456, 252, 4096, 2618>>, offset |-> 22809],
    [magic |-> <<40, 640, 0, 1968, 512>>, offset |-> 44545],
    [magic |-> <<8126, 8062, 8123, 8166, 4095>>, offset |-> 36072],
    [magic |-> <<5057, 2048, 2, 5, 1024>>, offset |-> 4750],
    [magic |-> <<5919, 8151, 8175, 8189, 3063>>, offset |-> 6014],
    [magic |-> <<7534, 7131, 8157, 7167, 4095>>, offset |-> 36054],
    [magic |-> <<3074, 64, 506, 0, 1155>>, offset |-> 78538],
    [magic |-> <<1026, 7104, 1023, 0, 2814>>, offset |-> 28745],
    [magic |-> <<6142, 7643, 7935, 2047, 3815>>, offset |-> 8555],
    [magic |-> <<2178, 577, 194, 1024, 0>>, offset |-> 1009]>>

BISHOP_BLACK_MAGICS ==
  <<[magic |-> <<984, 192, 24, 1025, 2672>>, offset |-> 60984],
    [magic |-> <<497, 64, 4112, 64, 312>>, offset |-> 66046],
    [magic |-> <<5644, 15, 1540, 256, 160>>, offset |-> 32910],
    [magic |-> <<8, 284, 2049, 256, 388>>, offset |-> 16369],
    [magic |-> <<0, 0, 64, 8128, 3075>>, offset |-> 42115],
    [magic |-> <<0, 6656, 8191, 23, 588>>, offset |-> 835],
    [magic |-> <<7940, 3, 2000, 4128, 128>>, offset |-> 18910],
    [magic |-> <<128, 5632, 2055, 4112, 256>>, offset |-> 25911],
    [magic |-> <<6143, 8061, 8175, 1533, 4090>>, offset |-> 63301],
    [magic |-> <<2049, 64, 6160, 7293, 131>>, offset |-> 16063],
    [magic |-> <<504, 128, 6, 1, 3080>>, offset |-> 17481],
    [magic |-> <<4096, 24, 8184, 0, 68>>, offset |-> 59361],
    [magic |-> <<0, 0, 8191, 0, 513>>, offset |-> 18735],
    [magic |-> <<0, 2044, 6144, 5119, 263>>, offset |-> 61249],
    [magic |-> <<128, 6656, 1031, 3600, 960>>, offset |-> 68938],
    [magic |-> <<64, 7424, 515, 3112, 128>>, offset |-> 61791],
    [magic |-> <<4089, 3070, 8160, 7423, 2047>>, offset |-> 21893],
    [magic |-> <<2045, 129, 8168, 7551, 2047>>, offset |-> 62068],
    [magic |-> <<1, 122, 48, 769, 1328>>, offset |-> 19829],
    [magic |-> <<7050, 127, 64, 7168, 1031>>, offset |-> 26091],
    [magic |-> <<16, 8128, 63, 8128, 513>>, offset |-> 15815],
    [magic |-> <<8175, 4559, 8183, 8159, 4093>>, offset |-> 16419],
    [magic |-> <<2, 7676, 3, 4112, 3272>>, offset |-> 59777],
    [magic |-> <<8191, 257, 8190, 4087, 2047>>, offset |-> 16288],
    [magic |-> <<48, 6150, 4000, 2, 2176>>, offset |-> 33235],
    [magic |-> <<24, 3075, 1472, 1, 66>>, offset |-> 15459],
    [magic |-> <<6141, 6159, 8159, 7678, 2047>>, offset |-> 15863],
    [magic |-> <<6, 1542, 3076, 96, 2160>>, offset |-> 75555],
    [magic |-> <<0, 771, 1540, 48, 3200>>, offset |-> 79445],
    [magic |-> <<16, 228, 3584, 64, 512>>, offset |-> 15917],
    [magic |-> <<1, 126, 3584, 8160, 135>>, offset |-> 8512],
    [magic |-> <<4103, 65, 768, 4120, 0>>, offset |-> 73069],
    [magic |-> <<64, 1046, 63, 1, 0>>, offset |-> 16078],
    [magic |-> <<32, 4619, 4127, 0, 0>>, offset |-> 19168],
    [magic |-> <<32, 4, 254, 4, 6>>, offset |-> 11056],
    [magic |-> <<128, 514, 8065, 2045, 3328>>, offset |-> 62544],
    [magic |-> <<4232, 1, 4102, 65, 2560>>, offset |-> 80477],
    [magic |-> <<2048, 8191, 7170, 8188, 2043>>, offset |-> 75049],
    [magic |-> <<3984, 0, 1017, 8160, 263>>, offset |-> 32947],
    [magic |-> <<2040, 3712, 5116, 8191, 2040>>, offset |-> 59172],
    [magic |-> <<128, 1988, 4160, 0, 0>>, offset |-> 55845],
    [magic |-> <<64, 994, 2080, 0, 0>>, offset |-> 61806],
    [magic |-> <<192, 3128, 4160, 0, 0>>, offset |-> 73601],
    [magic |-> <<128, 2018, 32, 0, 1>>, offset |-> 15546],
    [magic |-> <<48, 192, 3872, 0, 256>>, offset |-> 45243],
    [magic |-> <<80, 320, 6112, 1, 3088>>, offset |-> 20333],
    [magic |-> <<4060, 8128, 4091, 8191, 4095>>, offset |-> 33402],
    [magic |-> <<6162, 31, 1028, 0, 0>>, offset |-> 25917],
    [magic |-> <<512, 1028, 2000, 0, 128>>, offset |-> 32875],
    [magic |-> <<4616, 6654, 1031, 0, 132>>, offset |-> 4639],
    [magic |-> <<129, 7172, 3, 0, 128>>, offset |-> 17077],
    [magic |-> <<8064, 1, 2, 2048, 0>>, offset |-> 62324],
    [magic |-> <<64, 255, 64, 0, 128>>, offset |-> 18159],
    [magic |-> <<2560, 1152, 16, 6656, 1837>>, offset |-> 61436],
    [magic |-> <<6173, 8063, 8175, 8189, 4095>>, offset |-> 57073],
    [magic |-> <<4617, 8031, 2051, 0, 3288>>, offset |-> 61025],
    [magic |-> <<130, 5640, 1031, 0, 256>>, offset |-> 81259],
    [magic |-> <<47, 7942, 8187, 5631, 2043>>, offset |-> 64083],
    [magic |-> <<8063, 8067, 8191, 2047, 2040>>, offset |-> 56114],
    [magic |-> <<8129, 8127, 8191, 1023, 4095>>, offset |-> 57058],
    [magic |-> <<31, 2047, 0, 4104, 135>>, offset |-> 58912],
    [magic |-> <<4114, 1024, 0, 7281, 2373>>, offset |-> 22194],
    [magic |-> <<4058, 256, 32, 256, 132>>, offset |-> 70880],
    [magic |-> <<8, 6849, 4119, 1, 256>>, offset |-> 11140]>>

to_u64_limb(bb, k) ==
  LET B(j) == IF ((13 * k) + j) \in bb THEN 2 ^ j ELSE 0
  IN B(0) + B(1) + B(2) + B(3) + B(4) + B(5) + B(6) + B(7) + B(8) + B(9) + B(10) + B(11)
       + B(12)
to_u64(bb) == [k \in 1 .. 5 |-> to_u64_limb(bb, k - 1)]

\* u64::wrapping_mul: the low 64 bits of the product.
wrapping_mul_carry_unwrapped(a, b, c1, c2, c3, c4) ==
  <<c1 % LIMB, c2 % LIMB, c3 % LIMB, c4 % LIMB,
    (a[1] * b[5]) + (a[2] * b[4]) + (a[3] * b[3]) + (a[4] * b[2]) + (a[5] * b[1])
      + (c4 \div LIMB)>>
wrapping_mul_carry(a, b, c1, c2, c3, c4) ==
  <<c1 % LIMB, c2 % LIMB, c3 % LIMB, c4 % LIMB,
    ((a[1] * b[5]) + (a[2] * b[4]) + (a[3] * b[3]) + (a[4] * b[2]) + (a[5] * b[1])
       + (c4 \div LIMB)) % 4096>>
wrapping_mul_4(a, b, c1, c2, c3) ==
  wrapping_mul_carry(a, b, c1, c2, c3,
    (a[1] * b[4]) + (a[2] * b[3]) + (a[3] * b[2]) + (a[4] * b[1]) + (c3 \div LIMB))
wrapping_mul_3(a, b, c1, c2) ==
  wrapping_mul_4(a, b, c1, c2, (a[1] * b[3]) + (a[2] * b[2]) + (a[3] * b[1]) + (c2 \div LIMB))
wrapping_mul_2(a, b, c1) ==
  wrapping_mul_3(a, b, c1, (a[1] * b[2]) + (a[2] * b[1]) + (c1 \div LIMB))
wrapping_mul(a, b) == wrapping_mul_2(a, b, a[1] * b[1])

\* hash >> (64 - shift): the top shift bits, for a shift of at most 12.
shr_64_minus(hash, shift) == hash[5] \div (2 ^ (12 - shift))

\* Slider::relevant_blockers: each ray without its last square.
relevant_blockers(walks, s) ==
  UNION {{walks[s][i][j] : j \in 1 .. (Len(walks[s][i]) - 1)} : i \in 1 .. 4}

\* BitBoard::set_blockers, sqs being the squares of the mask in the
\* ascending order of its iterator: those picked by the bits of index.
set_blockers_of(sqs, index) ==
  {sqs[c] : c \in {n \in 1 .. Len(sqs) : (index \div (2 ^ (n - 1))) % 2 = 1}}

\* The BlackMagics value BlackMagics::gen returns: not_mask[square] = !mask.
BlackMagics_new(black_magics, shift, walks) ==
  [magics |-> black_magics,
   not_mask |-> [s \in Squares |-> Squares \ relevant_blockers(walks, s)],
   shift |-> shift]
rook_bmagics == BlackMagics_new(ROOK_BLACK_MAGICS, ROOK_SHIFT, ROOK_WALKS)
bishop_bmagics == BlackMagics_new(BISHOP_BLACK_MAGICS, BISHOP_SHIFT, BISHOP_WALKS)

\* BlackMagics::magic_index, the index the build writes at.
BlackMagics_magic_index(self, square, blockers) ==
  shr_64_minus(wrapping_mul(to_u64(blockers \cup self.not_mask[square]),
                            self.magics[square + 1].magic), self.shift)
    + self.magics[square + 1].offset

\* write_bmagics: the BlackMagicEntry array the library includes.
write_bmagics(bmagics) ==
  [s \in Squares |-> [magic |-> bmagics.magics[s + 1].magic, not_mask |-> bmagics.not_mask[s],
                      offset |-> bmagics.magics[s + 1].offset]]

\* magic_index of the library, the index get_rook_attacks and
\* get_bishop_attacks read at.
magic_index(magic, shift, blockers) ==
  magic.offset
    + shr_64_minus(wrapping_mul(to_u64(blockers \cup magic.not_mask), magic.magic), shift)

\* The two passes of build.rs over the shared table, rooks first, and the
\* arrays the library reads for each.
GenPasses ==
  <<[bmagics |-> rook_bmagics, walks |-> ROOK_WALKS, entries |-> write_bmagics(rook_bmagics)],
    [bmagics |-> bishop_bmagics, walks |-> BISHOP_WALKS,
     entries |-> write_bmagics(bishop_bmagics)]>>
ROOK_PASS == 1
BISHOP_PASS == 2
magic_lookup_index(pass, square, blockers) ==
  magic_index(GenPasses[pass].entries[square], GenPasses[pass].bmagics.shift, blockers)

Signum(x) == IF x > 0 THEN 1 ELSE IF x < 0 THEN -1 ELSE 0
Abs(x) == IF x < 0 THEN -x ELSE x

\* squares_between without the end square.
squares_between_exclusive(start, end) ==
  LET dr0 == rank(end) - rank(start)
      df0 == file(end) - file(start)
      aligned == \/ (dr0 = 0 /\ df0 # 0)
                 \/ (df0 = 0 /\ dr0 # 0)
                 \/ (Abs(dr0) = Abs(df0) /\ dr0 # 0)
      dr == Signum(dr0)
      df == Signum(df0)
      n == IF Abs(dr0) > Abs(df0) THEN Abs(dr0) ELSE Abs(df0)
  IN IF start = end \/ ~aligned THEN EMPTY
     ELSE {from_file_rank(file(start) + (j * df), rank(start) + (j * dr)) : j \in 1 .. (n - 1)}

squares_between(start, end) ==
  LET dr0 == rank(end) - rank(start)
      df0 == file(end) - file(start)
      aligned == \/ (dr0 = 0 /\ df0 # 0)
                 \/ (df0 = 0 /\ dr0 # 0)
                 \/ (Abs(dr0) = Abs(df0) /\ dr0 # 0)
      dr == Signum(dr0)
      df == Signum(df0)
      n == IF Abs(dr0) > Abs(df0) THEN Abs(dr0) ELSE Abs(df0)
  IN IF start = end \/ ~aligned THEN EMPTY
     ELSE {from_file_rank(file(start) + (j * df), rank(start) + (j * dr)) : j \in 1 .. (n - 1)}
          \cup {end}

BETWEEN_ARRAY == [a \in Squares |-> [b \in Squares |-> squares_between(a, b)]]
get_between(a, b) == BETWEEN_ARRAY[a][b]

(***************************************************************************)
(* castle_rights.rs                                                        *)
(***************************************************************************)
RECURSIVE BitAnd(_, _)
BitAnd(a, b) ==
  IF a = 0 \/ b = 0 THEN 0
  ELSE ((a % 2) * (b % 2)) + (2 * BitAnd(a \div 2, b \div 2))
BitOr(a, b) == (a + b) - BitAnd(a, b)

CASTLE_WK_MASK == 8
CASTLE_WQ_MASK == 4
CASTLE_BK_MASK == 2
CASTLE_BQ_MASK == 1
KINGSIDE_CASTLE == <<CASTLE_WK_MASK, CASTLE_BK_MASK>>
QUEENSIDE_CASTLE == <<CASTLE_WQ_MASK, CASTLE_BQ_MASK>>
ALL_CASTLE == 15
NUM_CASTLING_RIGHTS == 16

KING_SIDE == 0
QUEEN_SIDE == 1
A1 == 0
E1 == 4
H1 == 7
A8 == 56
E8 == 60
H8 == 63
SOURCE == <<E1, E8>>
MEDIUM == <<<<5, 61>>, <<3, 59>>>>
DESTINATION == <<<<6, 62>>, <<2, 58>>>>
PRESENCE == <<<<{5, 6}, {61, 62}>>, <<{1, 2, 3}, {57, 58, 59}>>>>

CASTLE_RIGHTS_MASK ==
  [s \in Squares |->
     CASE s = A1 -> ALL_CASTLE - CASTLE_WQ_MASK
       [] s = E1 -> ALL_CASTLE - (CASTLE_WK_MASK + CASTLE_WQ_MASK)
       [] s = H1 -> ALL_CASTLE - CASTLE_WK_MASK
       [] s = A8 -> ALL_CASTLE - CASTLE_BQ_MASK
       [] s = E8 -> ALL_CASTLE - (CASTLE_BK_MASK + CASTLE_BQ_MASK)
       [] s = H8 -> ALL_CASTLE - CASTLE_BK_MASK
       [] OTHER -> ALL_CASTLE]

\* get_rook_castling: (rook source, rook destination) for the king's
\* destination; any file other than C or G is unreachable!() in the source.
get_rook_castling(dest) ==
  IF file(dest) = 2 THEN <<left(left(dest)), right(dest)>>
  ELSE <<right(dest), left(dest)>>

CastleRights_null == 0
has_kingside(rights, color) == BitAnd(rights, KINGSIDE_CASTLE[color + 1]) # 0
has_queenside(rights, color) == BitAnd(rights, QUEENSIDE_CASTLE[color + 1]) # 0
CastleRights_update_src_only(rights, src, dest) == BitAnd(rights, CASTLE_RIGHTS_MASK[src])
CastleRights_update(rights, src, dest) ==
  BitAnd(BitAnd(rights, CASTLE_RIGHTS_MASK[src]), CASTLE_RIGHTS_MASK[dest])

\* FromStr for CastleRights: [ok |-> BOOLEAN, rights |-> 0 .. 15].
RECURSIVE CastleRights_scan(_, _, _)
CastleRights_scan(cs, i, rights) ==
  IF i > Len(cs) THEN [ok |-> TRUE, rights |-> rights]
  ELSE CASE cs[i] = "K" -> CastleRights_scan(cs, i + 1, BitOr(rights, CASTLE_WK_MASK))
         [] cs[i] = "Q" -> CastleRights_scan(cs, i + 1, BitOr(rights, CASTLE_WQ_MASK))
         [] cs[i] = "k" -> CastleRights_scan(cs, i + 1, BitOr(rights, CASTLE_BK_MASK))
         [] cs[i] = "q" -> CastleRights_scan(cs, i + 1, BitOr(rights, CASTLE_BQ_MASK))
         [] cs[i] = "-" -> IF Len(cs) # 1 THEN [ok |-> FALSE, rights |-> 0]
                           ELSE CastleRights_scan(cs, i + 1, 0)
         [] OTHER -> [ok |-> FALSE, rights |-> 0]
CastleRights_from_str(cs) == CastleRights_scan(cs, 1, 0)

\* Display for CastleRights.
CastleRights_to_string(rights) ==
  LET s == (IF BitAnd(rights, CASTLE_WK_MASK) # 0 THEN <<"K">> ELSE <<>>)
           \o (IF BitAnd(rights, CASTLE_WQ_MASK) # 0 THEN <<"Q">> ELSE <<>>)
           \o (IF BitAnd(rights, CASTLE_BK_MASK) # 0 THEN <<"k">> ELSE <<>>)
           \o (IF BitAnd(rights, CASTLE_BQ_MASK) # 0 THEN <<"q">> ELSE <<>>)
  IN IF s = <<>> THEN <<"-">> ELSE s

(***************************************************************************)
(* moves.rs, move_list.rs                                                  *)
(***************************************************************************)
Quiet == 0
DoublePawn == 1
KingCastle == 2
QueenCastle == 3
Capture == 4
EnPassant == 5
PromotionKnight == 8
PromotionBishop == 9
PromotionRook == 10
PromotionQueen == 11
CapPromoKnight == 12
CapPromoBishop == 13
CapPromoRook == 14
CapPromoQueen == 15

Move_null == 0
Move_new(src, dest, move_type) == (move_type * 4096) + (dest * 64) + src
get_src(mv) == mv % 64
get_dest(mv) == (mv \div 64) % 64
flag(mv) == mv \div 4096
get_type(mv) == flag(mv)
is_promotion(mv) == (mv \div 32768) % 2 = 1
is_capture_by_flag(mv) == (mv \div 4096) >= 4
is_capture(mv) == (mv \div 16384) % 2 = 1
get_prom(mv, color) == PROM_PIECES[color + 1][(flag(mv) % 4) + 1]

\* Display for Move / PartialEq<&str>: source, destination and, for a
\* promotion, the lower-case letter of the promoted piece.
Move_to_string(mv) ==
  square_to_str(get_src(mv)) \o square_to_str(get_dest(mv))
    \o (IF is_promotion(mv) THEN <<to_char(get_prom(mv, Black))>> ELSE <<>>)

MAX_MOVES == 252
MoveList_push_unchecked(list, mv) == Append(list, mv)
MoveList_push(list, mv) == IF Len(list) < MAX_MOVES THEN Append(list, mv) ELSE list
MoveList_clear(list) == <<>>
\* Successive pushes of mvs: the moves beyond the capacity are dropped.
MoveList_extend(list, mvs) ==
  LET room == MAX_MOVES - Len(list)
  IN IF Len(mvs) <= room THEN list \o mvs ELSE list \o SubSeq(mvs, 1, room)

(***************************************************************************)
(* zobrist.rs: a hash value is the set of keys XOR-ed in an odd number of  *)
(* times.  Keys: 0..767 piece-square, 768..831 en passant, 832..847        *)
(* castling, 848 side.                                                     *)
(***************************************************************************)
KEY_PIECE_SQUARE(piece, square) == (piece * 64) + square
KEY_ENPASSANT(square) == 768 + square
KEY_CASTLE(rights) == 832 + rights
KEY_SIDE == 848

Xor(z, key) == IF key \in z THEN z \ {key} ELSE z \cup {key}
Zobrist_null == {}
hash_piece(z, piece, square) == Xor(z, KEY_PIECE_SQUARE(piece, square))
hash_enpassant(z, square) == Xor(z, KEY_ENPASSANT(square))
hash_castle(z, rights) == Xor(z, KEY_CASTLE(rights))
swap_castle_hash(z, old, new) == Xor(Xor(z, KEY_CASTLE(old)), KEY_CASTLE(new))
hash_side(z) == Xor(z, KEY_SIDE)

(***************************************************************************)
(* board/board.rs: the Board struct, set_piece, remove_piece, piece_on     *)
(***************************************************************************)
Board_new ==
  [pieces_bitboard |-> [i \in 0 .. 5 |-> EMPTY],
   sides_bitboard |-> [c \in 0 .. 1 |-> EMPTY],
   piece_map |-> [s \in Squares |-> NoPiece],
   enpassant_square |-> NoSquare,
   castling |-> CastleRights_null,
   fifty_move |-> 0,
   full_move |-> 1,
   zobrist |-> Zobrist_null,
   side |-> White,
   checkers |-> EMPTY]

piece_on(b, square) == b.piece_map[square]

set_piece(b, piece, square) ==
  LET index == piece_index(piece)
      color == piece_color(piece)
  IN [b EXCEPT !.pieces_bitboard[index] = @ \cup {square},
               !.sides_bitboard[color] = @ \cup {square},
               !.piece_map[square] = piece,
               !.zobrist = hash_piece(@, piece, square)]

\* remove_piece unwraps piece_on(square): it panics on an empty square.
remove_piece_panics(b, square) == piece_on(b, square) = NoPiece
remove_piece(b, square) ==
  LET piece == piece_on(b, square)
      index == piece_index(piece)
      color == piece_color(piece)
  IN [b EXCEPT !.pieces_bitboard[index] = @ \ {square},
               !.sides_bitboard[color] = @ \ {square},
               !.piece_map[square] = NoPiece,
               !.zobrist = hash_piece(@, piece, square)]

(***************************************************************************)
(* board/lookups.rs, macros.rs (impl_piece_lookups)                        *)
(***************************************************************************)
white_bitboard(b) == b.sides_bitboard[White]
black_bitboard(b) == b.sides_bitboard[Black]
combined_bitboard(b) == white_bitboard(b) \cup black_bitboard(b)
piece_presence(b, piece) ==
  b.pieces_bitboard[piece_index(piece)] \cap b.sides_bitboard[piece_color(piece)]
allied_presence(b) == b.sides_bitboard[b.side]
enemy_presence(b) == b.sides_bitboard[Not(b.side)]

pawns(b) == b.pieces_bitboard[PAWN]
knights(b) == b.pieces_bitboard[KNIGHT]
bishops(b) == b.pieces_bitboard[BISHOP]
rooks(b) == b.pieces_bitboard[ROOK]
queens(b) == b.pieces_bitboard[QUEEN]
kings(b) == b.pieces_bitboard[KING]
allied_pawns(b) == pawns(b) \cap allied_presence(b)
allied_knights(b) == knights(b) \cap allied_presence(b)
allied_bishops(b) == bishops(b) \cap allied_presence(b)
allied_rooks(b) == rooks(b) \cap allied_presence(b)
allied_queens(b) == queens(b) \cap allied_presence(b)
allied_king(b) == kings(b) \cap allied_presence(b)
enemy_bishops(b) == bishops(b) \cap enemy_presence(b)
enemy_rooks(b) == rooks(b) \cap enemy_presence(b)
enemy_queens(b) == queens(b) \cap enemy_presence(b)
enemy_king(b) == kings(b) \cap enemy_presence(b)
enemy_queen_bishops(b) == enemy_queens(b) \cup enemy_bishops(b)
enemy_queen_rooks(b) == enemy_queens(b) \cup enemy_rooks(b)

\* attackers without its pawn term.
attackers_without_pawns(b, square, blockers) ==
  enemy_presence(b)
    \cap ((knights(b) \cap get_knight_attacks(square))
          \cup (kings(b) \cap get_king_attacks(square))
          \cup ((queens(b) \cup bishops(b)) \cap get_bishop_attacks(square, blockers))
          \cup ((queens(b) \cup rooks(b)) \cap get_rook_attacks(square, blockers)))

attackers(b, square, blockers) ==
  enemy_presence(b)
    \cap ((knights(b) \cap get_knight_attacks(square))
          \cup (kings(b) \cap get_king_attacks(square))
          \cup (pawns(b) \cap get_pawn_attacks(b.side, square))
          \cup ((queens(b) \cup bishops(b)) \cap get_bishop_attacks(square, blockers))
          \cup ((queens(b) \cup rooks(b)) \cap get_rook_attacks(square, blockers)))
attacked_square(b, square, blockers) == attackers(b, square, blockers) # EMPTY
checkers(b) == attackers(b, to_square(allied_king(b)), combined_bitboard(b))

(***************************************************************************)
(* board/movegen.rs.  Every enumerate_* operator returns the sequence of   *)
(* moves handed to the handler, in the order of the calls.                 *)
(***************************************************************************)
QUIET_MOVES == 1
TACTICAL_MOVES == 2
ALL_MOVES == 3
HasQuiet(all_moves) == all_moves % 2 = 1
HasTactical(all_moves) == (all_moves \div 2) % 2 = 1

SymDiff(x, y) == (x \ y) \cup (y \ x)

\* check_mask that allows every square.
check_mask_full(in_check, b) == FULL

check_mask(in_check, b) ==
  IF in_check
    THEN get_between(to_square(allied_king(b)), to_square(b.checkers)) \cup b.checkers
    ELSE FULL

\* pinners that finds no pin.
pinners_none(b) == <<EMPTY, EMPTY>>

pinners(b) ==
  LET king_square == to_square(allied_king(b))
      blockers_mask == combined_bitboard(b)
      probe == (get_bishop_rays(king_square) \cup get_rook_rays(king_square))
                 \cap (enemy_queen_bishops(b) \cup enemy_queen_rooks(b))
      diagonal_pinned == get_bishop_attacks(king_square, blockers_mask) \cap allied_presence(b)
      linnear_pinned == get_rook_attacks(king_square, blockers_mask) \cap allied_presence(b)
      diagonal_pinned_removed == blockers_mask \ diagonal_pinned
      linear_pinned_removed == blockers_mask \ linnear_pinned
      diagonal_attackers ==
        get_bishop_attacks(king_square, diagonal_pinned_removed) \cap enemy_queen_bishops(b)
      linear_attackers ==
        get_rook_attacks(king_square, linear_pinned_removed) \cap enemy_queen_rooks(b)
  IN IF probe = EMPTY THEN <<EMPTY, EMPTY>>
     ELSE <<UNION {get_between(king_square, attacker) : attacker \in diagonal_attackers},
            UNION {get_between(king_square, attacker) : attacker \in linear_attackers}>>

\* The loop shared by the king, knight, bishop and rook enumerators: the
\* ALL_MOVES filter on the attack set, then one Capture or Quiet per square.
enumerate_attacks(all_moves, b, s, attacks0) ==
  LET attacks1 == IF all_moves = TACTICAL_MOVES THEN attacks0 \cap enemy_presence(b)
                  ELSE attacks0
      attacks == IF all_moves = QUIET_MOVES THEN attacks1 \ enemy_presence(b) ELSE attacks1
      dests == Iter(attacks)
  IN [i \in 1 .. Len(dests) |->
        IF dests[i] \in enemy_presence(b) THEN Move_new(s, dests[i], Capture)
        ELSE Move_new(s, dests[i], Quiet)]

enumerate_pawn_normal_moves(in_check, all_moves, b, src, diagonal_pins, linear_pins) ==
  LET rank_7 == IF b.side = White THEN RANK_7 ELSE RANK_2
      rank_3 == IF b.side = White THEN RANK_3 ELSE RANK_6
      Masked(x) == IF in_check THEN x \cap check_mask(in_check, b) ELSE x
      pushers == (src \ rank_7) \ diagonal_pins
      single_push0 ==
        (bb_forward(pushers \ linear_pins, b.side)
           \cup (bb_forward(pushers \cap linear_pins, b.side) \cap linear_pins))
          \ combined_bitboard(b)
      double_push0 == bb_forward(single_push0 \cap rank_3, b.side) \ combined_bitboard(b)
      single_push == Iter(Masked(single_push0))
      double_push == Iter(Masked(double_push0))
      takers == (src \ rank_7) \ linear_pins
      capture_left ==
        Iter(Masked((bb_up_left(takers \ diagonal_pins, b.side)
                       \cup (bb_up_left(takers \cap diagonal_pins, b.side) \cap diagonal_pins))
                      \cap enemy_presence(b)))
      capture_right ==
        Iter(Masked((bb_up_right(takers \ diagonal_pins, b.side)
                       \cup (bb_up_right(takers \cap diagonal_pins, b.side) \cap diagonal_pins))
                      \cap enemy_presence(b)))
  IN (IF HasQuiet(all_moves)
        THEN [i \in 1 .. Len(single_push) |->
                Move_new(sq_backward(single_push[i], b.side), single_push[i], Quiet)]
             \o [i \in 1 .. Len(double_push) |->
                   Move_new(sq_backward(sq_backward(double_push[i], b.side), b.side),
                            double_push[i], DoublePawn)]
        ELSE <<>>)
     \o (IF HasTactical(all_moves)
           THEN [i \in 1 .. Len(capture_left) |->
                   Move_new(right_color(sq_backward(capture_left[i], b.side), b.side),
                            capture_left[i], Capture)]
                \o [i \in 1 .. Len(capture_right) |->
                      Move_new(left_color(sq_backward(capture_right[i], b.side), b.side),
                               capture_right[i], Capture)]
           ELSE <<>>)

enumerate_promotions_all(all_moves, s, dest, capture) ==
  <<Move_new(s, dest, IF capture THEN CapPromoQueen ELSE PromotionQueen),
    Move_new(s, dest, IF capture THEN CapPromoRook ELSE PromotionRook),
    Move_new(s, dest, IF capture THEN CapPromoBishop ELSE PromotionBishop),
    Move_new(s, dest, IF capture THEN CapPromoKnight ELSE PromotionKnight)>>
enumerate_promotions(all_moves, s, dest, capture) ==
  (IF HasTactical(all_moves)
     THEN <<Move_new(s, dest, IF capture THEN CapPromoQueen ELSE PromotionQueen)>>
     ELSE <<>>)
  \o (IF HasQuiet(all_moves)
        THEN <<Move_new(s, dest, IF capture THEN CapPromoRook ELSE PromotionRook),
               Move_new(s, dest, IF capture THEN CapPromoBishop ELSE PromotionBishop),
               Move_new(s, dest, IF capture THEN CapPromoKnight ELSE PromotionKnight)>>
        ELSE <<>>)

enumerate_pawn_promotion_moves(in_check, all_moves, b, src, diagonal_pins, linear_pins) ==
  LET rank_7 == IF b.side = White THEN RANK_7 ELSE RANK_2
      Masked(x) == IF in_check THEN x \cap check_mask(in_check, b) ELSE x
      pawns_to_promote == src \cap rank_7
      takers == pawns_to_promote \ linear_pins
      capture_left_prom ==
        Iter(Masked((bb_up_left(takers \ diagonal_pins, b.side)
                       \cup (bb_up_left(takers \cap diagonal_pins, b.side) \cap diagonal_pins))
                      \cap enemy_presence(b)))
      capture_right_prom ==
        Iter(Masked((bb_up_right(takers \ diagonal_pins, b.side)
                       \cup (bb_up_right(takers \cap diagonal_pins, b.side) \cap diagonal_pins))
                      \cap enemy_presence(b)))
      pushers == pawns_to_promote \ diagonal_pins
      quiet_promotions ==
        Iter(Masked((bb_forward(pushers \ linear_pins, b.side)
                       \cup (bb_forward(pushers \cap linear_pins, b.side) \cap linear_pins))
                      \ combined_bitboard(b)))
  IN IF pawns_to_promote = EMPTY THEN <<>>
     ELSE Concat([i \in 1 .. Len(capture_left_prom) |->
                    enumerate_promotions(all_moves,
                      right_color(sq_backward(capture_left_prom[i], b.side), b.side),
                      capture_left_prom[i], TRUE)])
          \o Concat([i \in 1 .. Len(capture_right_prom) |->
                       enumerate_promotions(all_moves,
                         left_color(sq_backward(capture_right_prom[i], b.side), b.side),
                         capture_right_prom[i], TRUE)])
          \o Concat([i \in 1 .. Len(quiet_promotions) |->
                       enumerate_promotions(all_moves,
                         sq_backward(quiet_promotions[i], b.side),
                         quiet_promotions[i], FALSE)])

\* enumerate_pawn_en_passant_moves that looks for rooks and queens on the
\* king's rank and file only.
enumerate_pawn_en_passant_moves_rook_only(b, src, linear_pins) ==
  LET candidates == src \ linear_pins
      king_square == to_square(allied_king(b))
      dest == b.enpassant_square
      victim == sq_forward(dest, Not(b.side))
      Blockers(s) == SymDiff(SymDiff(combined_bitboard(b), {victim}), {s}) \cup {dest}
      RookRay(s) ==
        /\ (get_rook_rays(king_square) \cap enemy_queen_rooks(b)) # EMPTY
        /\ (get_rook_attacks(king_square, Blockers(s)) \cap enemy_queen_rooks(b)) # EMPTY
      Kept(s) == ~RookRay(s)
      sources == SelectSeq(Iter(candidates \cap get_pawn_attacks(Not(b.side), dest)), Kept)
  IN IF b.enpassant_square = NoSquare THEN <<>>
     ELSE [i \in 1 .. Len(sources) |-> Move_new(sources[i], dest, EnPassant)]

enumerate_pawn_en_passant_moves(b, src, linear_pins) ==
  LET candidates == src \ linear_pins
      king_square == to_square(allied_king(b))
      dest == b.enpassant_square
      victim == sq_forward(dest, Not(b.side))
      Blockers(s) == SymDiff(SymDiff(combined_bitboard(b), {victim}), {s}) \cup {dest}
      RookRay(s) ==
        /\ (get_rook_rays(king_square) \cap enemy_queen_rooks(b)) # EMPTY
        /\ (get_rook_attacks(king_square, Blockers(s)) \cap enemy_queen_rooks(b)) # EMPTY
      BishopRay(s) ==
        /\ (get_bishop_rays(king_square) \cap enemy_queen_bishops(b)) # EMPTY
        /\ (get_bishop_attacks(king_square, Blockers(s)) \cap enemy_queen_bishops(b)) # EMPTY
      Kept(s) == ~RookRay(s) /\ ~BishopRay(s)
      sources == SelectSeq(Iter(candidates \cap get_pawn_attacks(Not(b.side), dest)), Kept)
  IN IF b.enpassant_square = NoSquare THEN <<>>
     ELSE [i \in 1 .. Len(sources) |-> Move_new(sources[i], dest, EnPassant)]

enumerate_pawn_moves(in_check, all_moves, b, src, diagonal_pins, linear_pins) ==
  enumerate_pawn_normal_moves(in_check, all_moves, b, src, diagonal_pins, linear_pins)
    \o enumerate_pawn_promotion_moves(in_check, all_moves, b, src, diagonal_pins, linear_pins)
    \o (IF HasTactical(all_moves) THEN enumerate_pawn_en_passant_moves(b, src, linear_pins)
        ELSE <<>>)

\* enumerate_castling_moves that tests the destination of the king only.
enumerate_castling_moves_dest_only(b) ==
  LET side == b.side + 1
      CanCastle(wing) ==
        /\ (combined_bitboard(b) \cap PRESENCE[wing + 1][side]) = EMPTY
        /\ ~attacked_square(b, DESTINATION[wing + 1][side], combined_bitboard(b))
  IN (IF has_kingside(b.castling, b.side) /\ CanCastle(KING_SIDE)
        THEN <<Move_new(SOURCE[side], DESTINATION[KING_SIDE + 1][side], KingCastle)>>
        ELSE <<>>)
     \o (IF has_queenside(b.castling, b.side) /\ CanCastle(QUEEN_SIDE)
           THEN <<Move_new(SOURCE[side], DESTINATION[QUEEN_SIDE + 1][side], QueenCastle)>>
           ELSE <<>>)

enumerate_castling_moves(b) ==
  LET side == b.side + 1
      CanCastle(wing) ==
        /\ (combined_bitboard(b) \cap PRESENCE[wing + 1][side]) = EMPTY
        /\ ~attacked_square(b, MEDIUM[wing + 1][side], combined_bitboard(b))
        /\ ~attacked_square(b, DESTINATION[wing + 1][side], combined_bitboard(b))
  IN (IF has_kingside(b.castling, b.side) /\ CanCastle(KING_SIDE)
        THEN <<Move_new(SOURCE[side], DESTINATION[KING_SIDE + 1][side], KingCastle)>>
        ELSE <<>>)
     \o (IF has_queenside(b.castling, b.side) /\ CanCastle(QUEEN_SIDE)
           THEN <<Move_new(SOURCE[side], DESTINATION[QUEEN_SIDE + 1][side], QueenCastle)>>
           ELSE <<>>)

\* enumerate_king_moves without the test of the destination for attacks.
enumerate_king_moves_unchecked(all_moves, b, src) ==
  enumerate_attacks(all_moves, b, src, get_king_attacks(src) \ allied_presence(b))

enumerate_king_moves(all_moves, b, src) ==
  LET blockers == combined_bitboard(b) \ {src}
      targets == get_king_attacks(src) \ allied_presence(b)
  IN enumerate_attacks(all_moves, b, src,
                       {dest \in targets : ~attacked_square(b, dest, blockers)})

enumerate_knight_moves(in_check, all_moves, b, src, diagonal_pins, linear_pins) ==
  LET Masked(x) == IF in_check THEN x \cap check_mask(in_check, b) ELSE x
      movers == Iter(src \ (diagonal_pins \cup linear_pins))
  IN Concat([i \in 1 .. Len(movers) |->
               enumerate_attacks(all_moves, b, movers[i],
                 Masked(get_knight_attacks(movers[i]) \ allied_presence(b)))])

enumerate_bishop_moves(in_check, all_moves, b, src, diagonal_pins, linear_pins) ==
  LET Masked(x) == IF in_check THEN x \cap check_mask(in_check, b) ELSE x
      free == Iter((src \ linear_pins) \ diagonal_pins)
      pinned == Iter((src \ linear_pins) \cap diagonal_pins)
  IN Concat([i \in 1 .. Len(free) |->
               enumerate_attacks(all_moves, b, free[i],
                 Masked(get_bishop_attacks(free[i], combined_bitboard(b))
                          \ allied_presence(b)))])
     \o Concat([i \in 1 .. Len(pinned) |->
                  enumerate_attacks(all_moves, b, pinned[i],
                    Masked((get_bishop_attacks(pinned[i], combined_bitboard(b))
                              \ allied_presence(b)) \cap diagonal_pins))])

enumerate_rook_moves(in_check, all_moves, b, src, diagonal_pins, linear_pins) ==
  LET Masked(x) == IF in_check THEN x \cap check_mask(in_check, b) ELSE x
      free == Iter((src \ diagonal_pins) \ linear_pins)
      pinned == Iter((src \ diagonal_pins) \cap linear_pins)
  IN Concat([i \in 1 .. Len(free) |->
               enumerate_attacks(all_moves, b, free[i],
                 Masked(get_rook_attacks(free[i], combined_bitboard(b))
                          \ allied_presence(b)))])
     \o Concat([i \in 1 .. Len(pinned) |->
                  enumerate_attacks(all_moves, b, pinned[i],
                    Masked((get_rook_attacks(pinned[i], combined_bitboard(b))
                              \ allied_presence(b)) \cap linear_pins))])

\* macros.rs, Enumerate_Moves!
Enumerate_Moves(in_check, all_moves, b, diagonal_pins, linear_pins) ==
  enumerate_pawn_moves(in_check, all_moves, b, allied_pawns(b), diagonal_pins, linear_pins)
    \o enumerate_knight_moves(in_check, all_moves, b, allied_knights(b),
                              diagonal_pins, linear_pins)
    \o enumerate_bishop_moves(in_check, all_moves, b, allied_bishops(b) \cup allied_queens(b),
                              diagonal_pins, linear_pins)
    \o enumerate_rook_moves(in_check, all_moves, b, allied_rooks(b) \cup allied_queens(b),
                            diagonal_pins, linear_pins)

enumerate_legal_moves(all_moves, b) ==
  LET pins == pinners(b)
      count_bits == Cardinality(b.checkers)
  IN (IF count_bits = 0
        THEN Enumerate_Moves(FALSE, all_moves, b, pins[1], pins[2])
             \o (IF HasQuiet(all_moves) THEN enumerate_castling_moves(b) ELSE <<>>)
        ELSE IF count_bits = 1
          THEN Enumerate_Moves(TRUE, all_moves, b, pins[1], pins[2])
          ELSE <<>>)
     \o enumerate_king_moves(all_moves, b, to_square(allied_king(b)))

gen_moves(all_moves, b) == MoveList_extend(<<>>, enumerate_legal_moves(all_moves, b))

(***************************************************************************)
(* board/movemaker.rs.  make_move and null_move return                     *)
(* [panic |-> BOOLEAN, board |-> Board]; on a panic no board is returned   *)
(* and `board` repeats the argument.  fifty_move is a u8: `+ 1` at 255     *)
(* panics in a build with overflow checks and wraps to 0 without them.     *)
(***************************************************************************)
U8_MAX == 255
U16_MAX == 65535
wrapping_add_u16(x, y) == (x + y) % (U16_MAX + 1)
saturating_add_u16(x, y) == IF x + y > U16_MAX THEN U16_MAX ELSE x + y

fifty_move_update(b, mv, piece) ==
  IF is_capture(mv) \/ piece_index(piece) = PAWN THEN 0 ELSE b.fifty_move + 1

make_move(b, mv, overflow_checks) ==
  LET src == get_src(mv)
      dest == get_dest(mv)
      move_type == get_type(mv)
      piece == piece_on(b, src)
      b1 == remove_piece(b, src)
      clock == fifty_move_update(b1, mv, piece)
      b2 == [b1 EXCEPT !.fifty_move = clock % (U8_MAX + 1),
                       !.full_move = IF b1.side = Black THEN saturating_add_u16(@, 1) ELSE @]
      rook == Piece_new(ROOK, b.side)
      rook_squares == get_rook_castling(dest)
      victim == sq_forward(dest, Not(b.side))
      special_panics ==
        IF move_type = EnPassant THEN remove_piece_panics(b2, victim)
        ELSE IF move_type \in {KingCastle, QueenCastle}
          THEN file(dest) \notin {2, 6} \/ remove_piece_panics(b2, rook_squares[1])
        ELSE IF is_capture(mv) THEN remove_piece_panics(b2, dest)
        ELSE FALSE
      b3 == IF move_type = EnPassant THEN remove_piece(b2, victim)
            ELSE IF move_type \in {KingCastle, QueenCastle}
              THEN set_piece(remove_piece(b2, rook_squares[1]), rook, rook_squares[2])
            ELSE IF is_capture(mv) THEN remove_piece(b2, dest)
            ELSE b2
      b4 == IF is_promotion(mv) THEN set_piece(b3, get_prom(mv, b.side), dest)
            ELSE set_piece(b3, piece, dest)
      b5 == IF b.enpassant_square # NoSquare
              THEN [b4 EXCEPT !.enpassant_square = NoSquare,
                              !.zobrist = hash_enpassant(@, b.enpassant_square)]
              ELSE b4
      enpassant_target == sq_forward(src, b.side)
      b6 == IF move_type = DoublePawn
              THEN [b5 EXCEPT !.enpassant_square = enpassant_target,
                              !.zobrist = hash_enpassant(@, enpassant_target)]
              ELSE b5
      new_castling_rights == CastleRights_update(b.castling, src, dest)
      b7 == [b6 EXCEPT !.castling = new_castling_rights,
                       !.zobrist = swap_castle_hash(@, b.castling, new_castling_rights),
                       !.side = Not(b.side)]
      b8 == [b7 EXCEPT !.zobrist = hash_side(@)]
      panics == \/ src = dest
                \/ piece = NoPiece
                \/ (clock > U8_MAX /\ overflow_checks)
                \/ special_panics
  IN IF panics THEN [panic |-> TRUE, board |-> b]
     ELSE [panic |-> FALSE, board |-> [b8 EXCEPT !.checkers = checkers(b8)]]

null_move_keep_enpassant(b) ==
  IF b.checkers # EMPTY THEN [panic |-> TRUE, board |-> b]
  ELSE [panic |-> FALSE,
        board |-> [b EXCEPT !.side = Not(b.side), !.zobrist = hash_side(@), !.checkers = EMPTY]]
null_move(b) ==
  LET b1 == [b EXCEPT !.side = Not(b.side), !.zobrist = hash_side(@)]
      b2 == [b1 EXCEPT !.enpassant_square = NoSquare]
      b3 == IF b.enpassant_square # NoSquare
              THEN [b2 EXCEPT !.zobrist = hash_enpassant(@, b.enpassant_square)]
              ELSE b2
  IN IF b.checkers # EMPTY THEN [panic |-> TRUE, board |-> b]
     ELSE [panic |-> FALSE, board |-> [b3 EXCEPT !.checkers = EMPTY]]

\* find_move: the first generated move whose text equals move_str, or NoMove.
NoMove == 65536
find_move(b, move_str) ==
  LET list == gen_moves(ALL_MOVES, b)
      hits == {i \in 1 .. Len(list) : Move_to_string(list[i]) = move_str}
  IN IF hits = {} THEN NoMove ELSE list[CHOOSE i \in hits : \A j \in hits : i <= j]

\* make_uci_move: [ok |-> BOOLEAN, panic |-> BOOLEAN, board |-> Board]; ok is
\* Ok(board), and an Err leaves only the board the caller had.
make_uci_move_ok(made) ==
  [ok |-> ~made.panic, panic |-> made.panic, board |-> made.board]
make_uci_move(b, uci_move, overflow_checks) ==
  IF find_move(b, uci_move) = NoMove
    THEN [ok |-> FALSE, panic |-> FALSE, board |-> b]
    ELSE make_uci_move_ok(make_move(b, find_move(b, uci_move), overflow_checks))

(***************************************************************************)
(* san.rs: SanBuffered::render_san, the text of a move in Standard         *)
(* Algebraic Notation, as [panic |-> BOOLEAN, san |-> text].               *)
(* PieceType::to_char, File::to_char and Rank::to_char are not in piece.rs, *)
(* file.rs and rank.rs as given; they are the upper-case piece letter, the  *)
(* lower-case file letter and the rank digit of the specification.         *)
(***************************************************************************)
PieceTypeChars == <<"P", "N", "B", "R", "Q", "K">>
PieceType_to_char(piece_type) == PieceTypeChars[piece_type + 1]
File_to_char(f) == FileChars[f + 1]
Rank_to_char(r) == RankChars[r + 1]

is_king_castle(mv) == get_type(mv) = KingCastle
is_queen_castle(mv) == get_type(mv) = QueenCastle
is_castle(mv) == is_king_castle(mv) \/ is_queen_castle(mv)

\* The sources of the candidates that the closure given to
\* enumerate_legal_moves counts: another move to dest by a piece of
\* piece_type.
san_candidates(b, mv, piece_type, list) ==
  {get_src(list[i]) :
     i \in {j \in 1 .. Len(list) :
              /\ list[j] # mv
              /\ get_dest(list[j]) = get_dest(mv)
              /\ piece_on(b, get_src(list[j])) # NoPiece
              /\ piece_index(piece_on(b, get_src(list[j]))) = piece_type}}
san_disambiguator(src, ambiguous, file_disambiguates, rank_disambiguates) ==
  IF ~ambiguous THEN <<>>
  ELSE (IF file_disambiguates THEN <<File_to_char(file(src))>> ELSE <<>>)
         \o (IF rank_disambiguates THEN <<Rank_to_char(rank(src))>> ELSE <<>>)
         \o (IF ~file_disambiguates /\ ~rank_disambiguates
               THEN <<File_to_char(file(src)), Rank_to_char(rank(src))>>
               ELSE <<>>)
san_piece_move(mv, piece_type, candidates) ==
  (IF piece_type # PAWN THEN <<PieceType_to_char(piece_type)>> ELSE <<>>)
    \o (IF piece_type = PAWN
          THEN (IF is_capture(mv) THEN <<File_to_char(file(get_src(mv)))>> ELSE <<>>)
          ELSE san_disambiguator(get_src(mv), candidates # {},
                                 \A c \in candidates : file(c) # file(get_src(mv)),
                                 \A c \in candidates : rank(c) # rank(get_src(mv))))
    \o (IF is_capture(mv) THEN <<"x">> ELSE <<>>)
    \o <<File_to_char(file(get_dest(mv))), Rank_to_char(rank(get_dest(mv)))>>
    \o (IF is_promotion(mv) THEN <<"=", PieceType_to_char(piece_index(get_prom(mv, White)))>>
        ELSE <<>>)
san_check(new_board) ==
  IF new_board.checkers # EMPTY /\ gen_moves(ALL_MOVES, new_board) = <<>> THEN <<"#">>
  ELSE IF new_board.checkers # EMPTY THEN <<"+">>
  ELSE <<>>
render_san_text(b, mv, piece_type, new_board) ==
  IF piece_type = KING /\ is_castle(mv)
    THEN (IF is_king_castle(mv) THEN <<"O", "-", "O">> ELSE <<"O", "-", "O", "-", "O">>)
    ELSE san_piece_move(mv, piece_type,
                        IF piece_type = PAWN THEN {}
                        ELSE san_candidates(b, mv, piece_type,
                                            enumerate_legal_moves(ALL_MOVES, b)))
           \o san_check(new_board)
render_san_made(b, mv, made) ==
  IF made.panic \/ piece_on(b, get_src(mv)) = NoPiece THEN [panic |-> TRUE, san |-> <<>>]
  ELSE [panic |-> FALSE,
        san |-> render_san_text(b, mv, piece_index(piece_on(b, get_src(mv))), made.board)]
render_san(b, mv, overflow_checks) == render_san_made(b, mv, make_move(b, mv, overflow_checks))

(***************************************************************************)
(* Text: a string is the sequence of its characters.  Number formatting    *)
(* and parsing follow Rust's Display and FromStr for u8/u16/i32.           *)
(***************************************************************************)
DigitChars == <<"0", "1", "2", "3", "4", "5", "6", "7", "8", "9">>
digit_value(c) ==
  IF \E i \in 1 .. 10 : DigitChars[i] = c
    THEN (CHOOSE i \in 1 .. 10 : DigitChars[i] = c) - 1
    ELSE -1

RECURSIVE int_to_string(_)
int_to_string(n) ==
  IF n < 10 THEN <<DigitChars[n + 1]>>
  ELSE int_to_string(n \div 10) \o <<DigitChars[(n % 10) + 1]>>

\* str::parse::<uN>: an optional "+", then one or more decimal digits whose
\* value fits the type; -1 stands for Err.
RECURSIVE parse_digits(_, _, _, _)
parse_digits(cs, i, acc, max) ==
  IF i > Len(cs) THEN acc
  ELSE IF digit_value(cs[i]) < 0 THEN -1
  ELSE IF (acc * 10) + digit_value(cs[i]) > max THEN -1
  ELSE parse_digits(cs, i + 1, (acc * 10) + digit_value(cs[i]), max)
parse_unsigned(cs, max) ==
  LET digits == IF cs # <<>> /\ cs[1] = "+" THEN Tail(cs) ELSE cs
  IN IF digits = <<>> THEN -1 ELSE parse_digits(digits, 1, 0, max)

\* str::split_whitespace: the maximal runs of non-space characters, in order.
split_whitespace(cs) ==
  LET starts == {i \in 1 .. Len(cs) : cs[i] # " " /\ (i = 1 \/ cs[i - 1] = " ")}
      EndOf(i) == CHOOSE j \in i .. Len(cs) :
                    /\ \A k \in i .. j : cs[k] # " "
                    /\ (j = Len(cs) \/ cs[j + 1] = " ")
      order == Iter(starts)
  IN [n \in 1 .. Len(order) |-> SubSeq(cs, order[n], EndOf(order[n]))]

(***************************************************************************)
(* board/board.rs: FromStr for Board and to_fen.                           *)
(* from_str returns [ok |-> BOOLEAN, board |-> Board].                     *)
(***************************************************************************)
FenErr == [ok |-> FALSE, board |-> Board_new]

\* One iteration of the loop over the piece placement field.  The loop
\* state st is [ok, board, f, r, count]: ok is FALSE once the loop has
\* returned Err; File::right and Rank::down wrap modulo 8.
from_str_token(st, token) ==
  IF ~st.ok THEN st
  ELSE IF token = "/"
    THEN (IF st.count # 8 THEN [st EXCEPT !.ok = FALSE]
          ELSE [st EXCEPT !.r = (@ + 7) % 8, !.count = 0])
  ELSE IF digit_value(token) \in 1 .. 8
    THEN [st EXCEPT !.f = (@ + digit_value(token)) % 8,
                    !.count = @ + digit_value(token)]
  ELSE IF Piece_try_from(token) = NoPiece THEN [st EXCEPT !.ok = FALSE]
  ELSE [st EXCEPT !.board = set_piece(@, Piece_try_from(token), from_file_rank(st.f, st.r)),
                  !.f = (@ + 1) % 8,
                  !.count = @ + 1]

\* The iterations for the characters cs[lo] .. cs[hi], in order; the loop
\* stops at the first Err.
RECURSIVE from_str_tokens(_, _, _, _)
from_str_tokens(cs, lo, hi, st) ==
  IF lo > hi THEN st
  ELSE IF lo = hi THEN from_str_token(st, cs[lo])
  ELSE LET mid == (lo + hi) \div 2
           done == from_str_tokens(cs, lo, mid, st)
       IN IF done.ok THEN from_str_tokens(cs, mid + 1, hi, done) ELSE done

\* The placement loop from (A, Eight, 0) and the check that follows it.
from_str_placement(cs) ==
  LET st == from_str_tokens(cs, 1, Len(cs),
                            [ok |-> TRUE, board |-> Board_new, f |-> 0, r |-> 7, count |-> 0])
  IN IF ~st.ok \/ st.count # 8 THEN FenErr ELSE [ok |-> TRUE, board |-> st.board]

from_str_side(b, field) ==
  IF field = <<"w">> THEN [ok |-> TRUE, board |-> [b EXCEPT !.side = White,
                                                            !.zobrist = hash_side(@)]]
  ELSE IF field = <<"b">> THEN [ok |-> TRUE, board |-> [b EXCEPT !.side = Black]]
  ELSE FenErr

from_str_castling(b, field) ==
  LET parsed == CastleRights_from_str(field)
  IN IF ~parsed.ok THEN FenErr
     ELSE [ok |-> TRUE, board |-> [b EXCEPT !.castling = parsed.rights,
                                            !.zobrist = hash_castle(@, parsed.rights)]]

from_str_enpassant(b, field) ==
  LET ep_square == Square_from_str(field)
  IN IF field = <<"-">> THEN [ok |-> TRUE, board |-> [b EXCEPT !.enpassant_square = NoSquare]]
     ELSE IF ep_square = NoSquare THEN FenErr
     ELSE IF rank(ep_square) # 2 /\ rank(ep_square) # 5 THEN FenErr
     ELSE [ok |-> TRUE, board |-> [b EXCEPT !.enpassant_square = ep_square,
                                            !.zobrist = hash_enpassant(@, ep_square)]]

MAX_HALFMOVE == 100
from_str_counters(b, half_field, full_field) ==
  LET half_move == parse_unsigned(half_field, U8_MAX)
      full_move == parse_unsigned(full_field, U16_MAX)
  IN IF half_move < 0 \/ half_move > MAX_HALFMOVE THEN FenErr
     ELSE IF full_move <= 0 THEN FenErr
     ELSE [ok |-> TRUE, board |-> [b EXCEPT !.fifty_move = half_move,
                                            !.full_move = full_move]]

from_str(s) ==
  LET fen == split_whitespace(s)
      placed == from_str_placement(fen[1])
      sided == from_str_side(placed.board, fen[2])
      castled == from_str_castling(sided.board, fen[3])
      eped == from_str_enpassant(castled.board, fen[4])
      counted == from_str_counters(eped.board, fen[5], fen[6])
  IN IF Len(fen) # 6 THEN FenErr
     ELSE IF ~placed.ok THEN FenErr
     ELSE IF ~sided.ok THEN FenErr
     ELSE IF ~castled.ok THEN FenErr
     ELSE IF ~eped.ok THEN FenErr
     ELSE IF ~counted.ok THEN FenErr
     ELSE [ok |-> TRUE, board |-> [counted.board EXCEPT !.checkers = checkers(counted.board)]]

RECURSIVE to_fen_rank(_, _, _, _)
to_fen_rank(b, r, f, empty_squares) ==
  IF f = 8 THEN (IF empty_squares > 0 THEN int_to_string(empty_squares) ELSE <<>>)
  ELSE IF b.piece_map[(r * 8) + f] # NoPiece
    THEN (IF empty_squares > 0 THEN int_to_string(empty_squares) ELSE <<>>)
         \o <<to_char(b.piece_map[(r * 8) + f])>>
         \o to_fen_rank(b, r, f + 1, 0)
  ELSE to_fen_rank(b, r, f + 1, empty_squares + 1)

to_fen(b) ==
  Concat([k \in 1 .. 8 |->
            to_fen_rank(b, 8 - k, 0, 0) \o (IF 8 - k # 0 THEN <<"/">> ELSE <<>>)])
    \o <<" ", IF b.side = White THEN "w" ELSE "b", " ">>
    \o CastleRights_to_string(b.castling)
    \o <<" ">>
    \o (IF b.enpassant_square # NoSquare THEN square_to_str(b.enpassant_square) ELSE <<"-">>)
    \o <<" ">> \o int_to_string(b.fifty_move)
    \o <<" ">> \o int_to_string(b.full_move)

(***************************************************************************)
(* The rules of chess, read off the mailbox alone.  These definitions are  *)
(* the yardstick the generator is compared with; they use none of the      *)
(* generator's tables.                                                     *)
(***************************************************************************)
RuleBetweenTable ==
  [a \in Squares |-> [c \in Squares |->
     {s \in Squares :
        LET df == file(c) - file(a)
            dr == rank(c) - rank(a)
            ef == file(s) - file(a)
            er == rank(s) - rank(a)
        IN /\ s # a /\ s # c
           /\ (ef * dr) = (er * df)
           /\ ((ef * df) + (er * dr)) > 0
           /\ (Abs(ef) + Abs(er)) < (Abs(df) + Abs(dr))}]]
RuleClear(pm, a, c) == \A s \in RuleBetweenTable[a][c] : pm[s] = NoPiece

\* The piece on `from` attacks the square `to`.
RuleAttacks(pm, from, to) ==
  LET kind == pm[from] % 6
      df == file(to) - file(from)
      dr == rank(to) - rank(from)
      diagonal == Abs(df) = Abs(dr) /\ RuleClear(pm, from, to)
      straight == (df = 0 \/ dr = 0) /\ RuleClear(pm, from, to)
  IN /\ pm[from] # NoPiece
     /\ from # to
     /\ CASE kind = PAWN -> Abs(df) = 1 /\ dr = (IF pm[from] < 6 THEN 1 ELSE -1)
          [] kind = KNIGHT -> {Abs(df), Abs(dr)} = {1, 2}
          [] kind = BISHOP -> diagonal
          [] kind = ROOK -> straight
          [] kind = QUEEN -> diagonal \/ straight
          [] OTHER -> Abs(df) <= 1 /\ Abs(dr) <= 1

RuleHas(pm, s, color) == pm[s] # NoPiece /\ (IF pm[s] < 6 THEN White ELSE Black) = color
RuleAttackersOf(pm, sq, color) ==
  {s \in Squares : RuleHas(pm, s, color) /\ RuleAttacks(pm, s, sq)}
RuleKingSquares(pm, color) == {s \in Squares : pm[s] = (color * 6) + KING}
RuleKingAttacked(pm, color) ==
  \E k \in RuleKingSquares(pm, color) : RuleAttackersOf(pm, k, 1 - color) # {}
\* The enemy pieces that give check to the side to move.
RuleCheckers(b) ==
  UNION {RuleAttackersOf(b.piece_map, k, 1 - b.side) : k \in RuleKingSquares(b.piece_map, b.side)}

RulePawnMoves(b, s) ==
  LET pm == b.piece_map
      dir == IF b.side = White THEN 1 ELSE -1
      home == IF b.side = White THEN 1 ELSE 6
      far == IF b.side = White THEN 7 ELSE 0
      one == s + (8 * dir)
      two == s + (16 * dir)
      Types(d, capture) ==
        IF rank(d) = far
          THEN (IF capture THEN {CapPromoKnight, CapPromoBishop, CapPromoRook, CapPromoQueen}
                ELSE {PromotionKnight, PromotionBishop, PromotionRook, PromotionQueen})
          ELSE (IF capture THEN {Capture} ELSE {Quiet})
      targets == {d \in Squares : rank(d) = rank(s) + dir /\ Abs(file(d) - file(s)) = 1}
  IN IF one \notin Squares THEN {}
     ELSE (IF pm[one] = NoPiece THEN {Move_new(s, one, t) : t \in Types(one, FALSE)} ELSE {})
          \cup (IF rank(s) = home /\ pm[one] = NoPiece /\ pm[two] = NoPiece
                  THEN {Move_new(s, two, DoublePawn)} ELSE {})
          \cup UNION {{Move_new(s, d, t) : t \in Types(d, TRUE)} :
                        d \in {x \in targets : RuleHas(pm, x, 1 - b.side)}}
          \cup {Move_new(s, d, EnPassant) :
                  d \in {x \in targets : /\ x = b.enpassant_square
                                         /\ pm[x] = NoPiece
                                         /\ pm[x - (8 * dir)] = ((1 - b.side) * 6) + PAWN}}

RulePieceMoves(b, s) ==
  {Move_new(s, d, IF b.piece_map[d] = NoPiece THEN Quiet ELSE Capture) :
     d \in {x \in Squares : RuleAttacks(b.piece_map, s, x) /\ ~RuleHas(b.piece_map, x, b.side)}}

RuleCastlingMoves(b) ==
  LET pm == b.piece_map
      base == IF b.side = White THEN 0 ELSE 56
      kingside == IF b.side = White THEN 8 ELSE 2
      queenside == IF b.side = White THEN 4 ELSE 1
      Safe(sq) == RuleAttackersOf(pm, sq, 1 - b.side) = {}
      Ready(bit, corner) == /\ (b.castling \div bit) % 2 = 1
                            /\ pm[base + 4] = (b.side * 6) + KING
                            /\ pm[corner] = (b.side * 6) + ROOK
                            /\ RuleClear(pm, base + 4, corner)
                            /\ Safe(base + 4)
  IN (IF Ready(kingside, base + 7) /\ Safe(base + 5) /\ Safe(base + 6)
        THEN {Move_new(base + 4, base + 6, KingCastle)} ELSE {})
     \cup (IF Ready(queenside, base) /\ Safe(base + 3) /\ Safe(base + 2)
             THEN {Move_new(base + 4, base + 2, QueenCastle)} ELSE {})

RulePseudoMoves(b) ==
  UNION {IF b.piece_map[s] % 6 = PAWN THEN RulePawnMoves(b, s) ELSE RulePieceMoves(b, s) :
           s \in {x \in Squares : RuleHas(b.piece_map, x, b.side)}}
    \cup RuleCastlingMoves(b)

\* The mailbox after the move, by the rules.
RuleApply(b, mv) ==
  LET pm == b.piece_map
      s == mv % 64
      d == (mv \div 64) % 64
      t == mv \div 4096
      dir == IF b.side = White THEN 1 ELSE -1
      placed == IF t >= 8 THEN (b.side * 6) + (t % 4) + 1 ELSE pm[s]
      rook == (b.side * 6) + ROOK
  IN [x \in Squares |->
        IF x = s THEN NoPiece
        ELSE IF x = d THEN placed
        ELSE IF t = EnPassant /\ x = d - (8 * dir) THEN NoPiece
        ELSE IF t = KingCastle /\ x = d + 1 THEN NoPiece
        ELSE IF t = KingCastle /\ x = d - 1 THEN rook
        ELSE IF t = QueenCastle /\ x = d - 2 THEN NoPiece
        ELSE IF t = QueenCastle /\ x = d + 1 THEN rook
        ELSE pm[x]]

RuleLegalMoves(b) ==
  {mv \in RulePseudoMoves(b) : ~RuleKingAttacked(RuleApply(b, mv), b.side)}

(***************************************************************************)
(* Texts given to from_str and make_uci_move.  GameFens are positions of   *)
(* games played from the standard start position; OddFens are texts that   *)
(* from_str also has to answer: positions no game reaches, and a clock     *)
(* beyond the accepted range.                                              *)
(***************************************************************************)
\* rnbqkbnr/pppppppp/8/8/8/8/PPPPPPPP/RNBQKBNR w KQkq - 0 1
FEN_DEFAULT ==
  <<"r", "n", "b", "q", "k", "b", "n", "r", "/", "p", "p", "p", "p", "p", "p", "p", "p",
    "/", "8", "/", "8", "/", "8", "/", "8", "/", "P", "P", "P", "P", "P", "P", "P", "P",
    "/", "R", "N", "B", "Q", "K", "B", "N", "R", " ", "w", " ", "K", "Q", "k", "q", " ",
    "-", " ", "0", " ", "1">>
\* r3k2r/p1ppqpb1/bn2pnp1/3PN3/1p2P3/2N2Q1p/PPPBBPPP/R3K2R w KQkq - 0 1
FEN_KIWIPETE ==
  <<"r", "3", "k", "2", "r", "/", "p", "1", "p", "p", "q", "p", "b", "1", "/", "b", "n",
    "2", "p", "n", "p", "1", "/", "3", "P", "N", "3", "/", "1", "p", "2", "P", "3", "/",
    "2", "N", "2", "Q", "1", "p", "/", "P", "P", "P", "B", "B", "P", "P", "P", "/", "R",
    "3", "K", "2", "R", " ", "w", " ", "K", "Q", "k", "q", " ", "-", " ", "0", " ", "1">>
\* 8/2p5/3p4/KP5r/1R3p1k/8/4P1P1/8 w - - 0 1
FEN_ENDGAME ==
  <<"8", "/", "2", "p", "5", "/", "3", "p", "4", "/", "K", "P", "5", "r", "/", "1", "R",
    "3", "p", "1", "k", "/", "8", "/", "4", "P", "1", "P", "1", "/", "8", " ", "w", " ",
    "-", " ", "-", " ", "0", " ", "1">>
\* r3k2r/Pppp1ppp/1b3nbN/nP6/BBP1P3/q4N2/Pp1P2PP/R2Q1RK1 w kq - 0 1
FEN_IN_CHECK ==
  <<"r", "3", "k", "2", "r", "/", "P", "p", "p", "p", "1", "p", "p", "p", "/", "1", "b",
    "3", "n", "b", "N", "/", "n", "P", "6", "/", "B", "B", "P", "1", "P", "3", "/", "q",
    "4", "N", "2", "/", "P", "p", "1", "P", "2", "P", "P", "/", "R", "2", "Q", "1", "R",
    "K", "1", " ", "w", " ", "k", "q", " ", "-", " ", "0", " ", "1">>
\* rnbq1k1r/pp1Pbppp/2p5/8/2B5/8/PPP1NnPP/RNBQK2R w KQ - 1 8
FEN_CAPTURE_PROMOTION ==
  <<"r", "n", "b", "q", "1", "k", "1", "r", "/", "p", "p", "1", "P", "b", "p", "p", "p",
    "/", "2", "p", "5", "/", "8", "/", "2", "B", "5", "/", "8", "/", "P", "P", "P", "1",
    "N", "n", "P", "P", "/", "R", "N", "B", "Q", "K", "2", "R", " ", "w", " ", "K", "Q",
    " ", "-", " ", "1", " ", "8">>
\* n1n5/PPPk4/8/8/8/8/4Kppp/5N1N b - - 0 1
FEN_PROMOTIONS ==
  <<"n", "1", "n", "5", "/", "P", "P", "P", "k", "4", "/", "8", "/", "8", "/", "8", "/",
    "8", "/", "4", "K", "p", "p", "p", "/", "5", "N", "1", "N", " ", "b", " ", "-", " ",
    "-", " ", "0", " ", "1">>
\* 8/8/8/2k5/3Pp3/8/8/4K3 b - d3 0 1
FEN_EP_CHECK ==
  <<"8", "/", "8", "/", "8", "/", "2", "k", "5", "/", "3", "P", "p", "3", "/", "8", "/",
    "8", "/", "4", "K", "3", " ", "b", " ", "-", " ", "d", "3", " ", "0", " ", "1">>
\* 8/8/8/KPp4r/8/8/8/7k w - c6 0 2
FEN_EP_PIN ==
  <<"8", "/", "8", "/", "8", "/", "K", "P", "p", "4", "r", "/", "8", "/", "8", "/", "8",
    "/", "7", "k", " ", "w", " ", "-", " ", "c", "6", " ", "0", " ", "2">>
\* k3r3/8/8/8/8/5n2/8/4K3 w - - 0 1
FEN_DOUBLE_CHECK ==
  <<"k", "3", "r", "3", "/", "8", "/", "8", "/", "8", "/", "8", "/", "5", "n", "2", "/",
    "8", "/", "4", "K", "3", " ", "w", " ", "-", " ", "-", " ", "0", " ", "1">>

\* 4k3/8/8/8/8/8/8/R3K3 b - - 0 65535
FEN_FULLMOVE_MAX ==
  <<"4", "k", "3", "/", "8", "/", "8", "/", "8", "/", "8", "/", "8", "/", "8", "/", "R",
    "3", "K", "3", " ", "b", " ", "-", " ", "-", " ", "0", " ", "6", "5", "5", "3", "5">>

GameFens ==
  {FEN_DEFAULT,
   FEN_KIWIPETE,
   FEN_ENDGAME,
   FEN_IN_CHECK,
   FEN_CAPTURE_PROMOTION,
   FEN_PROMOTIONS,
   FEN_EP_CHECK,
   FEN_EP_PIN,
   FEN_DOUBLE_CHECK,
   FEN_FULLMOVE_MAX}

\* 4k3/8/8/3pP3/8/5n2/8/4K3 w - d6 0 1
FEN_EP_KNIGHT_CHECK ==
  <<"4", "k", "3", "/", "8", "/", "8", "/", "3", "p", "P", "3", "/", "8", "/", "5", "n",
    "2", "/", "8", "/", "4", "K", "3", " ", "w", " ", "-", " ", "d", "6", " ", "0", " ",
    "1">>
\* 4k3/8/4n3/3Pp3/8/8/8/4K3 w - e6 0 1
FEN_EP_OCCUPIED ==
  <<"4", "k", "3", "/", "8", "/", "4", "n", "3", "/", "3", "P", "p", "3", "/", "8", "/",
    "8", "/", "8", "/", "4", "K", "3", " ", "w", " ", "-", " ", "e", "6", " ", "0", " ",
    "1">>
\* 4k3/8/8/8/8/8/8/R3K3 w Q - 100 60
FEN_CLOCK_100 ==
  <<"4", "k", "3", "/", "8", "/", "8", "/", "8", "/", "8", "/", "8", "/", "8", "/", "R",
    "3", "K", "3", " ", "w", " ", "Q", " ", "-", " ", "1", "0", "0", " ", "6", "0">>
\* 4k3/8/8/8/8/8/8/R3K3 w Q - 101 60
FEN_CLOCK_101 ==
  <<"4", "k", "3", "/", "8", "/", "8", "/", "8", "/", "8", "/", "8", "/", "8", "/", "R",
    "3", "K", "3", " ", "w", " ", "Q", " ", "-", " ", "1", "0", "1", " ", "6", "0">>

OddFens == {FEN_EP_KNIGHT_CHECK, FEN_EP_OCCUPIED, FEN_CLOCK_100, FEN_CLOCK_101}

(***************************************************************************)
(* Texts whose piece placement field is malformed in one way each: the     *)
(* number of ranks, the width of a rank, or a character of a rank.         *)
(***************************************************************************)
\* k7/7K w - - 0 1
FEN_TWO_RANKS ==
  <<"k", "7", "/", "7", "K", " ", "w", " ", "-", " ", "-", " ", "0", " ", "1">>
\* 4k3/8/8/8/8/8/4K3 w - - 0 1
FEN_SEVEN_RANKS ==
  <<"4", "k", "3", "/", "8", "/", "8", "/", "8", "/", "8", "/", "8", "/", "4", "K", "3",
    " ", "w", " ", "-", " ", "-", " ", "0", " ", "1">>
\* 4k3/8/8/8/8/8/8/4K3/8 w - - 0 1
FEN_NINE_RANKS ==
  <<"4", "k", "3", "/", "8", "/", "8", "/", "8", "/", "8", "/", "8", "/", "8", "/", "4",
    "K", "3", "/", "8", " ", "w", " ", "-", " ", "-", " ", "0", " ", "1">>
\* 4k3/8/8/8/8/8/8/4K2 w - - 0 1
FEN_SHORT_RANK ==
  <<"4", "k", "3", "/", "8", "/", "8", "/", "8", "/", "8", "/", "8", "/", "8", "/", "4",
    "K", "2", " ", "w", " ", "-", " ", "-", " ", "0", " ", "1">>
\* 4k3/8/8/8/8/8/8/4K4 w - - 0 1
FEN_LONG_RANK ==
  <<"4", "k", "3", "/", "8", "/", "8", "/", "8", "/", "8", "/", "8", "/", "8", "/", "4",
    "K", "4", " ", "w", " ", "-", " ", "-", " ", "0", " ", "1">>
\* 4k3/8/44p/8/8/8/8/4K3 w - - 0 1
FEN_LONG_MIDDLE_RANK ==
  <<"4", "k", "3", "/", "8", "/", "4", "4", "p", "/", "8", "/", "8", "/", "8", "/", "8",
    "/", "4", "K", "3", " ", "w", " ", "-", " ", "-", " ", "0", " ", "1">>
\* 4k3/9/8/8/8/8/8/4K3 w - - 0 1
FEN_DIGIT_NINE ==
  <<"4", "k", "3", "/", "9", "/", "8", "/", "8", "/", "8", "/", "8", "/", "8", "/", "4",
    "K", "3", " ", "w", " ", "-", " ", "-", " ", "0", " ", "1">>
\* 4k3/80/8/8/8/8/8/4K3 w - - 0 1
FEN_DIGIT_ZERO ==
  <<"4", "k", "3", "/", "8", "0", "/", "8", "/", "8", "/", "8", "/", "8", "/", "8", "/",
    "4", "K", "3", " ", "w", " ", "-", " ", "-", " ", "0", " ", "1">>
\* 4k3//8/8/8/8/8/4K3 w - - 0 1
FEN_EMPTY_RANK ==
  <<"4", "k", "3", "/", "/", "8", "/", "8", "/", "8", "/", "8", "/", "8", "/", "4", "K",
    "3", " ", "w", " ", "-", " ", "-", " ", "0", " ", "1">>
\* 4k3/8/8/8/8/8/8/4K3/ w - - 0 1
FEN_TRAILING_SLASH ==
  <<"4", "k", "3", "/", "8", "/", "8", "/", "8", "/", "8", "/", "8", "/", "8", "/", "4",
    "K", "3", "/", " ", "w", " ", "-", " ", "-", " ", "0", " ", "1">>
\* 4k3/8/8/3x4/8/8/8/4K3 w - - 0 1
FEN_BAD_PIECE ==
  <<"4", "k", "3", "/", "8", "/", "8", "/", "3", "x", "4", "/", "8", "/", "8", "/", "8",
    "/", "4", "K", "3", " ", "w", " ", "-", " ", "-", " ", "0", " ", "1">>
\* 4k3/8/8/8/8/8/8/4K34K3 w - - 0 1
FEN_SIXTEEN_SQUARES ==
  <<"4", "k", "3", "/", "8", "/", "8", "/", "8", "/", "8", "/", "8", "/", "8", "/", "4",
    "K", "3", "4", "K", "3", " ", "w", " ", "-", " ", "-", " ", "0", " ", "1">>

PlacementFens ==
  {FEN_TWO_RANKS,
   FEN_SEVEN_RANKS,
   FEN_NINE_RANKS,
   FEN_SHORT_RANK,
   FEN_LONG_RANK,
   FEN_LONG_MIDDLE_RANK,
   FEN_DIGIT_NINE,
   FEN_DIGIT_ZERO,
   FEN_EMPTY_RANK,
   FEN_TRAILING_SLASH,
   FEN_BAD_PIECE,
   FEN_SIXTEEN_SQUARES}

(***************************************************************************)
(* Positions given to to_san: those of tests/san.rs with several rooks and  *)
(* queens, two knights that reach one square from different files and      *)
(* ranks, a mate in one, and a knight that is pinned.                      *)
(***************************************************************************)
\* 2kr3r/8/8/R7/4Q2Q/8/8/R1K4Q w - - 0 1
FEN_SAN_ROOKS_QUEENS ==
  <<"2", "k", "r", "3", "r", "/", "8", "/", "8", "/", "R", "7", "/", "4", "Q", "2", "Q",
    "/", "8", "/", "8", "/", "R", "1", "K", "4", "Q", " ", "w", " ", "-", " ", "-", " ",
    "0", " ", "1">>
\* 2kr3r/8/8/R7/4Q2Q/8/8/R1K4Q b - - 0 1
FEN_SAN_ROOKS_QUEENS_BLACK ==
  <<"2", "k", "r", "3", "r", "/", "8", "/", "8", "/", "R", "7", "/", "4", "Q", "2", "Q",
    "/", "8", "/", "8", "/", "R", "1", "K", "4", "Q", " ", "b", " ", "-", " ", "-", " ",
    "0", " ", "1">>
\* 4k3/8/8/8/8/5N2/8/1N2K3 w - - 0 1
FEN_SAN_KNIGHTS ==
  <<"4", "k", "3", "/", "8", "/", "8", "/", "8", "/", "8", "/", "5", "N", "2", "/", "8",
    "/", "1", "N", "2", "K", "3", " ", "w", " ", "-", " ", "-", " ", "0", " ", "1">>
\* k7/6R1/7Q/8/8/8/8/K7 w - - 0 1
FEN_SAN_MATE ==
  <<"k", "7", "/", "6", "R", "1", "/", "7", "Q", "/", "8", "/", "8", "/", "8", "/", "8",
    "/", "K", "7", " ", "w", " ", "-", " ", "-", " ", "0", " ", "1">>
\* 4r2k/8/8/8/8/8/4N3/1N2K3 w - - 0 1
FEN_SAN_PINNED_KNIGHT ==
  <<"4", "r", "2", "k", "/", "8", "/", "8", "/", "8", "/", "8", "/", "8", "/", "4", "N",
    "3", "/", "1", "N", "2", "K", "3", " ", "w", " ", "-", " ", "-", " ", "0", " ", "1">>

SanFens ==
  {FEN_SAN_ROOKS_QUEENS,
   FEN_SAN_ROOKS_QUEENS_BLACK,
   FEN_SAN_KNIGHTS,
   FEN_SAN_MATE,
   FEN_SAN_PINNED_KNIGHT}

(***************************************************************************)
(* Positions for castling: both wings open, an attack on the B-file square *)
(* only, on the square the king passes, on its destination, pieces between *)
(* king and rook, the king in check, and rights of the other wing only.    *)
(***************************************************************************)
\* r3k2r/8/8/8/8/8/8/R3K2R w KQkq - 0 1
FEN_CASTLE_OPEN ==
  <<"r", "3", "k", "2", "r", "/", "8", "/", "8", "/", "8", "/", "8", "/", "8", "/", "8",
    "/", "R", "3", "K", "2", "R", " ", "w", " ", "K", "Q", "k", "q", " ", "-", " ", "0",
    " ", "1">>
\* 1r2k2r/8/8/8/8/8/8/R3K2R w KQk - 0 1
FEN_CASTLE_B_FILE ==
  <<"1", "r", "2", "k", "2", "r", "/", "8", "/", "8", "/", "8", "/", "8", "/", "8", "/",
    "8", "/", "R", "3", "K", "2", "R", " ", "w", " ", "K", "Q", "k", " ", "-", " ", "0",
    " ", "1">>
\* r3k2r/8/8/8/8/5b2/8/R3K2R w KQkq - 0 1
FEN_CASTLE_PASS_ATTACKED ==
  <<"r", "3", "k", "2", "r", "/", "8", "/", "8", "/", "8", "/", "8", "/", "5", "b", "2",
    "/", "8", "/", "R", "3", "K", "2", "R", " ", "w", " ", "K", "Q", "k", "q", " ", "-",
    " ", "0", " ", "1">>
\* r3k2r/8/8/8/8/4b3/8/R3K2R w KQkq - 0 1
FEN_CASTLE_DEST_ATTACKED ==
  <<"r", "3", "k", "2", "r", "/", "8", "/", "8", "/", "8", "/", "8", "/", "4", "b", "3",
    "/", "8", "/", "R", "3", "K", "2", "R", " ", "w", " ", "K", "Q", "k", "q", " ", "-",
    " ", "0", " ", "1">>
\* r3k2r/8/8/8/8/8/8/RN2K1NR w KQkq - 0 1
FEN_CASTLE_BLOCKED ==
  <<"r", "3", "k", "2", "r", "/", "8", "/", "8", "/", "8", "/", "8", "/", "8", "/", "8",
    "/", "R", "N", "2", "K", "1", "N", "R", " ", "w", " ", "K", "Q", "k", "q", " ", "-",
    " ", "0", " ", "1">>
\* r3k2r/8/8/8/8/8/4r3/R3K2R w KQkq - 0 1
FEN_CASTLE_IN_CHECK ==
  <<"r", "3", "k", "2", "r", "/", "8", "/", "8", "/", "8", "/", "8", "/", "8", "/", "4",
    "r", "3", "/", "R", "3", "K", "2", "R", " ", "w", " ", "K", "Q", "k", "q", " ", "-",
    " ", "0", " ", "1">>
\* r3k2r/8/8/8/8/8/8/R3K2R b Kq - 0 1
FEN_CASTLE_NO_RIGHTS ==
  <<"r", "3", "k", "2", "r", "/", "8", "/", "8", "/", "8", "/", "8", "/", "8", "/", "8",
    "/", "R", "3", "K", "2", "R", " ", "b", " ", "K", "q", " ", "-", " ", "0", " ", "1">>

CastleFens ==
  {FEN_CASTLE_OPEN,
   FEN_CASTLE_B_FILE,
   FEN_CASTLE_PASS_ATTACKED,
   FEN_CASTLE_DEST_ATTACKED,
   FEN_CASTLE_BLOCKED,
   FEN_CASTLE_IN_CHECK,
   FEN_CASTLE_NO_RIGHTS}

(***************************************************************************)
(* Positions for en passant: the capture uncovers a bishop, the capturing  *)
(* pawn is pinned on its file, on the diagonal it captures along, on the   *)
(* other diagonal, two pawns can capture, and two knights give check.      *)
(***************************************************************************)
\* 8/5bk1/8/2Pp4/8/1K6/8/8 w - d6 0 1
FEN_EP_DIAGONAL ==
  <<"8", "/", "5", "b", "k", "1", "/", "8", "/", "2", "P", "p", "4", "/", "8", "/", "1",
    "K", "6", "/", "8", "/", "8", " ", "w", " ", "-", " ", "d", "6", " ", "0", " ", "1">>
\* 4r1k1/8/8/3pP3/8/8/8/4K3 w - d6 0 1
FEN_EP_FILE_PIN ==
  <<"4", "r", "1", "k", "1", "/", "8", "/", "8", "/", "3", "p", "P", "3", "/", "8", "/",
    "8", "/", "8", "/", "4", "K", "3", " ", "w", " ", "-", " ", "d", "6", " ", "0", " ",
    "1">>
\* 1b2k3/8/8/3pP3/8/6K1/8/8 w - d6 0 1
FEN_EP_ALONG_PIN ==
  <<"1", "b", "2", "k", "3", "/", "8", "/", "8", "/", "3", "p", "P", "3", "/", "8", "/",
    "6", "K", "1", "/", "8", "/", "8", " ", "w", " ", "-", " ", "d", "6", " ", "0", " ",
    "1">>
\* 4k3/6b1/8/3pP3/8/2K5/8/8 w - d6 0 1
FEN_EP_OFF_PIN ==
  <<"4", "k", "3", "/", "6", "b", "1", "/", "8", "/", "3", "p", "P", "3", "/", "8", "/",
    "2", "K", "5", "/", "8", "/", "8", " ", "w", " ", "-", " ", "d", "6", " ", "0", " ",
    "1">>
\* 4k3/8/8/2PpP3/8/8/8/4K3 w - d6 0 1
FEN_EP_TWO_PAWNS ==
  <<"4", "k", "3", "/", "8", "/", "8", "/", "2", "P", "p", "P", "3", "/", "8", "/", "8",
    "/", "8", "/", "4", "K", "3", " ", "w", " ", "-", " ", "d", "6", " ", "0", " ", "1">>
\* 4k3/8/8/2Pp4/8/3n1n2/8/4K3 w - d6 0 1
FEN_EP_TWO_KNIGHTS ==
  <<"4", "k", "3", "/", "8", "/", "8", "/", "2", "P", "p", "4", "/", "8", "/", "3", "n",
    "1", "n", "2", "/", "8", "/", "4", "K", "3", " ", "w", " ", "-", " ", "d", "6", " ",
    "0", " ", "1">>

EpFens ==
  {FEN_EP_DIAGONAL,
   FEN_EP_FILE_PIN,
   FEN_EP_ALONG_PIN,
   FEN_EP_OFF_PIN,
   FEN_EP_TWO_PAWNS,
   FEN_EP_TWO_KNIGHTS}

(***************************************************************************)
(* Positions for pins: three pins and a queen that gives check, two pieces *)
(* of the king's side on the line, a piece of each side on the line, a     *)
(* rook on a diagonal and a bishop on a file, and a pin of each kind.      *)
(***************************************************************************)
\* R2bk3/5p2/4r1B1/1Q6/8/4Q3/4R3/2K5 b - - 0 1
FEN_PINS ==
  <<"R", "2", "b", "k", "3", "/", "5", "p", "2", "/", "4", "r", "1", "B", "1", "/", "1",
    "Q", "6", "/", "8", "/", "4", "Q", "3", "/", "4", "R", "3", "/", "2", "K", "5", " ",
    "b", " ", "-", " ", "-", " ", "0", " ", "1">>
\* 4k3/8/4n3/4n3/8/8/8/4R1K1 b - - 0 1
FEN_PIN_TWO_FRIENDLY ==
  <<"4", "k", "3", "/", "8", "/", "4", "n", "3", "/", "4", "n", "3", "/", "8", "/", "8",
    "/", "8", "/", "4", "R", "1", "K", "1", " ", "b", " ", "-", " ", "-", " ", "0", " ",
    "1">>
\* 4k3/4n3/8/4P3/8/8/8/4R1K1 b - - 0 1
FEN_PIN_ENEMY_BETWEEN ==
  <<"4", "k", "3", "/", "4", "n", "3", "/", "8", "/", "4", "P", "3", "/", "8", "/", "8",
    "/", "8", "/", "4", "R", "1", "K", "1", " ", "b", " ", "-", " ", "-", " ", "0", " ",
    "1">>
\* 4k3/3n4/4n3/1R6/8/8/8/4B1K1 b - - 0 1
FEN_PIN_WRONG_SLIDER ==
  <<"4", "k", "3", "/", "3", "n", "4", "/", "4", "n", "3", "/", "1", "R", "6", "/", "8",
    "/", "8", "/", "8", "/", "4", "B", "1", "K", "1", " ", "b", " ", "-", " ", "-", " ",
    "0", " ", "1">>
\* 4k3/8/8/8/1b6/4r3/3NP3/4K3 w - - 0 1
FEN_PIN_BOTH ==
  <<"4", "k", "3", "/", "8", "/", "8", "/", "8", "/", "1", "b", "6", "/", "4", "r", "3",
    "/", "3", "N", "P", "3", "/", "4", "K", "3", " ", "w", " ", "-", " ", "-", " ", "0",
    " ", "1">>

PinFens ==
  {FEN_PINS,
   FEN_PIN_TWO_FRIENDLY,
   FEN_PIN_ENEMY_BETWEEN,
   FEN_PIN_WRONG_SLIDER,
   FEN_PIN_BOTH}

(***************************************************************************)
(* All four rights set and a pawn of each side next to each corner, so a   *)
(* rook can be captured on its home square by a promotion.                 *)
(***************************************************************************)
\* r3k2r/1P4P1/8/8/8/8/1p4p1/R3K2R w KQkq - 0 1
FEN_CASTLE_CORNERS ==
  <<"r", "3", "k", "2", "r", "/", "1", "P", "4", "P", "1", "/", "8", "/", "8", "/", "8",
    "/", "8", "/", "1", "p", "4", "p", "1", "/", "R", "3", "K", "2", "R", " ", "w", " ",
    "K", "Q", "k", "q", " ", "-", " ", "0", " ", "1">>

RightsFens == CastleFens \cup {FEN_CASTLE_CORNERS, FEN_KIWIPETE, FEN_DEFAULT}

\* g1f3
UCI_G1F3 ==
  <<"g", "1", "f", "3">>
\* f3g1
UCI_F3G1 ==
  <<"f", "3", "g", "1">>
\* g8f6
UCI_G8F6 ==
  <<"g", "8", "f", "6">>
\* f6g8
UCI_F6G8 ==
  <<"f", "6", "g", "8">>

UciMoves == {UCI_G1F3, UCI_F3G1, UCI_G8F6, UCI_F6G8}

\* Texts for find_move and make_uci_move: legal moves of the FEN positions,
\* illegal moves and texts that are no move at all.
\* "e2e4"
UCI_E2E4 ==
  <<"e", "2", "e", "4">>
\* "e7e5"
UCI_E7E5 ==
  <<"e", "7", "e", "5">>
\* "e1g1"
UCI_E1G1 ==
  <<"e", "1", "g", "1">>
\* "e1c1"
UCI_E1C1 ==
  <<"e", "1", "c", "1">>
\* "d7c8q"
UCI_D7C8Q ==
  <<"d", "7", "c", "8", "q">>
\* "d7c8n"
UCI_D7C8N ==
  <<"d", "7", "c", "8", "n">>
\* "d7c8"
UCI_D7C8 ==
  <<"d", "7", "c", "8">>
\* "d7c8Q"
UCI_D7C8_UPPER ==
  <<"d", "7", "c", "8", "Q">>
\* "d7c8k"
UCI_D7C8K ==
  <<"d", "7", "c", "8", "k">>
\* "g2g1q"
UCI_G2G1Q ==
  <<"g", "2", "g", "1", "q">>
\* "g2f1r"
UCI_G2F1R ==
  <<"g", "2", "f", "1", "r">>
\* "e4d3"
UCI_E4D3 ==
  <<"e", "4", "d", "3">>
\* "b5c6"
UCI_B5C6 ==
  <<"b", "5", "c", "6">>
\* "d5e6"
UCI_D5E6 ==
  <<"d", "5", "e", "6">>
\* "e2e5"
UCI_E2E5 ==
  <<"e", "2", "e", "5">>
\* "e8d8"
UCI_E8D8 ==
  <<"e", "8", "d", "8">>
\* ""
UCI_EMPTY ==
  <<>>
\* "e2e4 "
UCI_E2E4_SPACE ==
  <<"e", "2", "e", "4", " ">>
\* "e2"
UCI_E2 ==
  <<"e", "2">>
UciTexts ==
  {UCI_G1F3, UCI_G8F6,
   UCI_E2E4, UCI_E7E5, UCI_E1G1, UCI_E1C1,
   UCI_D7C8Q, UCI_D7C8N, UCI_D7C8, UCI_D7C8_UPPER,
   UCI_D7C8K, UCI_G2G1Q, UCI_G2F1R, UCI_E4D3,
   UCI_B5C6, UCI_D5E6, UCI_E2E5, UCI_E8D8,
   UCI_EMPTY, UCI_E2E4_SPACE, UCI_E2}

(***************************************************************************)
(* The state machine: a caller that parses one FEN text and then applies   *)
(* generated moves and null moves to the board it holds.                   *)
(***************************************************************************)
VARIABLES board, status, last, ply, castle_rights, move_list, call

game_vars == <<board, status, last, ply>>
unit_vars == <<castle_rights, move_list, call>>
vars == <<board, status, last, ply, castle_rights, move_list, call>>

Init ==
  /\ board = Board_new
  /\ status = "new"
  /\ last = [op |-> "new", mv |-> NoMove, prev |-> Board_new]
  /\ ply = 0
  /\ castle_rights = CastleRights_null
  /\ move_list = <<>>
  /\ call = [op |-> "new"]

FromStr(inputs) ==
  /\ status = "new"
  /\ \E s \in inputs :
       LET parsed == from_str(s)
       IN /\ board' = parsed.board
          /\ status' = IF parsed.ok THEN "ok" ELSE "err"
          /\ last' = [op |-> "from_str", mv |-> NoMove, prev |-> board]
  /\ UNCHANGED ply
  /\ UNCHANGED unit_vars

MakeMove ==
  /\ status = "ok"
  /\ ply < MaxPly
  /\ LET list == gen_moves(ALL_MOVES, board)
     IN \E i \in 1 .. Len(list), overflow_checks \in BOOLEAN :
          LET made == make_move(board, list[i], overflow_checks)
          IN /\ board' = made.board
             /\ status' = IF made.panic THEN "panic" ELSE "ok"
             /\ last' = [op |-> "make_move", mv |-> list[i], prev |-> board]
  /\ ply' = ply + 1
  /\ UNCHANGED unit_vars

NullMove ==
  /\ status = "ok"
  /\ ply < MaxPly
  /\ LET made == null_move(board)
     IN /\ board' = made.board
        /\ status' = IF made.panic THEN "panic" ELSE "ok"
        /\ last' = [op |-> "null_move", mv |-> NoMove, prev |-> board]
  /\ ply' = ply + 1
  /\ UNCHANGED unit_vars

\* A second null_move, on the position a null move returned; prev keeps the
\* position before the first one.
NullMoveBack ==
  /\ status = "ok"
  /\ last.op = "null_move"
  /\ LET made == null_move(board)
     IN /\ board' = made.board
        /\ status' = IF made.panic THEN "panic" ELSE "ok"
        /\ last' = [op |-> "null_move_twice", mv |-> NoMove, prev |-> last.prev]
  /\ UNCHANGED ply
  /\ UNCHANGED unit_vars

\* A caller of make_uci_move: an Err leaves the caller with the board it had.
UciReturn(made, mv) ==
  /\ board' = made.board
  /\ status' = IF made.panic THEN "panic" ELSE "ok"
  /\ last' = [op |-> IF made.ok \/ made.panic THEN "make_move" ELSE "make_uci_move_err",
              mv |-> mv,
              prev |-> board]
  /\ ply' = IF made.ok THEN ply + 1 ELSE ply

MakeUciMove ==
  /\ status = "ok"
  /\ ply < MaxUciPly
  /\ \E uci_move \in UciMoves, overflow_checks \in BOOLEAN :
       UciReturn(make_uci_move(board, uci_move, overflow_checks),
                 find_move(board, uci_move))
  /\ UNCHANGED unit_vars

\* make_uci_move with any of the texts of UciTexts; call keeps the text.
MakeUciText ==
  /\ status = "ok"
  /\ ply < MaxPly
  /\ \E uci_move \in UciTexts, overflow_checks \in BOOLEAN :
       /\ UciReturn(make_uci_move(board, uci_move, overflow_checks),
                    find_move(board, uci_move))
       /\ call' = [op |-> "make_uci_move", text |-> uci_move]
  /\ UNCHANGED <<castle_rights, move_list>>

\* from_str of any of the texts; call keeps the text.
FromStrText(inputs) ==
  /\ status = "new"
  /\ \E s \in inputs :
       LET parsed == from_str(s)
       IN /\ board' = parsed.board
          /\ status' = IF parsed.ok THEN "ok" ELSE "err"
          /\ last' = [op |-> "from_str", mv |-> NoMove, prev |-> board]
          /\ call' = [op |-> "from_str", text |-> s]
  /\ UNCHANGED ply
  /\ UNCHANGED <<castle_rights, move_list>>

\* Games of generated moves and null moves from game positions.
Next == FromStr(GameFens) \/ MakeMove \/ NullMove

Spec == Init /\ [][Next]_vars

\* The same caller given any of the texts.
NextFen == FromStr(GameFens \cup OddFens) \/ MakeMove \/ NullMove

SpecFen == Init /\ [][NextFen]_vars

\* A long game from the standard start position, played through
\* make_uci_move: the knights go out and back.
NextUci == FromStr({FEN_DEFAULT}) \/ MakeUciMove

SpecUci == Init /\ [][NextUci]_vars

\* A Move on its own: Move::new of any two squares and any MoveType.
MoveTypes ==
  {Quiet, DoublePawn, KingCastle, QueenCastle, Capture, EnPassant,
   PromotionKnight, PromotionBishop, PromotionRook, PromotionQueen,
   CapPromoKnight, CapPromoBishop, CapPromoRook, CapPromoQueen}

InitMove ==
  /\ board = Board_new
  /\ status = "new"
  /\ last = [op |-> "new", mv |-> NoMove, prev |-> Board_new]
  /\ ply = 0
  /\ castle_rights = CastleRights_null
  /\ move_list = <<>>
  /\ call \in [op : {"args"}, src : Squares, dest : Squares, move_type : MoveTypes,
                mv : {Move_null}]

MoveNew ==
  /\ call.op = "args"
  /\ call' = [call EXCEPT !.op = "Move::new",
                          !.mv = Move_new(call.src, call.dest, call.move_type)]
  /\ UNCHANGED <<castle_rights, move_list, board, status, last, ply>>

NextMove == MoveNew

SpecMove == InitMove /\ [][NextMove]_vars

\* Games with a null move taken twice in a row.
NextNull == FromStr(GameFens) \/ MakeMove \/ NullMove \/ NullMoveBack

SpecNull == Init /\ [][NextNull]_vars

\* make_uci_move with legal, illegal and malformed texts from every FEN.
NextFind == FromStr(GameFens \cup OddFens) \/ MakeUciText

SpecFind == Init /\ [][NextFind]_vars

\* to_san of a generated move on the position a text was parsed to; call
\* keeps the move and its text.
ToSan ==
  /\ status = "ok"
  /\ last.op = "from_str"
  /\ LET list == gen_moves(ALL_MOVES, board)
     IN \E i \in 1 .. Len(list), overflow_checks \in BOOLEAN :
          LET rendered == render_san(board, list[i], overflow_checks)
          IN /\ status' = IF rendered.panic THEN "panic" ELSE "ok"
             /\ last' = [op |-> "to_san", mv |-> list[i], prev |-> board]
             /\ call' = [op |-> "to_san", mv |-> list[i], san |-> rendered.san]
  /\ UNCHANGED <<board, ply, castle_rights, move_list>>

\* A caller that renders the moves of the positions of SanFens and of two
\* game positions.
NextSan == FromStrText(SanFens \cup {FEN_DEFAULT, FEN_KIWIPETE}) \/ ToSan

SpecSan == Init /\ [][NextSan]_vars

\* gen_moves of the position held, for any of the three selections; the
\* list is kept in move_list and the selection in call.
GenMoves ==
  /\ status = "ok"
  /\ \E all_moves \in {QUIET_MOVES, TACTICAL_MOVES, ALL_MOVES} :
       /\ move_list' = gen_moves(all_moves, board)
       /\ call' = [op |-> "gen_moves", all_moves |-> all_moves]
  /\ last' = [op |-> "gen_moves", mv |-> NoMove, prev |-> board]
  /\ UNCHANGED <<board, status, ply, castle_rights>>

\* A caller that generates the moves of a position, parsed or made.
GenFens == GameFens \cup CastleFens \cup EpFens \cup {FEN_EP_KNIGHT_CHECK}

NextGen == FromStr(GenFens) \/ MakeMove \/ GenMoves

SpecGen == Init /\ [][NextGen]_vars

\* The first step of enumerate_legal_moves: the pin rays of the position
\* held, kept in call.
Pinners ==
  /\ status = "ok"
  /\ last.op # "pinners"
  /\ LET pins == pinners(board)
     IN call' = [op |-> "pinners", diagonal_pins |-> pins[1], linear_pins |-> pins[2]]
  /\ last' = [op |-> "pinners", mv |-> NoMove, prev |-> board]
  /\ UNCHANGED <<board, status, ply, castle_rights, move_list>>

\* A caller that asks for the pin rays of a position, parsed or made.
NextPin == FromStr(GenFens \cup PinFens) \/ MakeMove \/ Pinners

SpecPin == Init /\ [][NextPin]_vars

\* make_move of a generated move in a game of up to MaxGamePly moves.
PlayMove ==
  /\ status = "ok"
  /\ ply < MaxGamePly
  /\ LET list == gen_moves(ALL_MOVES, board)
     IN \E i \in 1 .. Len(list), overflow_checks \in BOOLEAN :
          LET made == make_move(board, list[i], overflow_checks)
          IN /\ board' = made.board
             /\ status' = IF made.panic THEN "panic" ELSE "ok"
             /\ last' = [op |-> "make_move", mv |-> list[i], prev |-> board]
  /\ ply' = ply + 1
  /\ UNCHANGED unit_vars

\* Games from positions whose castling rights have king and rook at home.
NextRights == FromStr(RightsFens) \/ PlayMove

SpecRights == Init /\ [][NextRights]_vars

\* A caller that parses any of the game texts or of the texts with a
\* malformed placement, and then applies a generated move.
NextParse == FromStrText(GameFens \cup PlacementFens) \/ MakeMove

SpecParse == Init /\ [][NextParse]_vars

(***************************************************************************)
(* The attack table.  One step of Gen is one iteration of the outer loop   *)
(* of BlackMagics::gen, the writes for one square; the passes are those of *)
(* build.rs.  The table is kept at the slots that the lookups of           *)
(* MagicLookups read (WatchedSlots): every one of the 294,912 writes is    *)
(* computed and held against the bounds of the table, and the writes to a  *)
(* watched slot are stored.  Lookup is get_rook_attacks or                 *)
(* get_bishop_attacks on the finished table.                               *)
(***************************************************************************)
OccupiedSquares == {12, 21, 26, 35, 40, 57}
LookupSquares ==
  {<<ROOK_PASS, 28>>, <<ROOK_PASS, 56>>, <<ROOK_PASS, 0>>, <<BISHOP_PASS, 28>>,
   <<BISHOP_PASS, 49>>, <<BISHOP_PASS, 63>>}
MagicLookups ==
  {[pass |-> BISHOP_PASS, square |-> 28, blockers |-> {10, 21, 46, 52, 56}],
   [pass |-> BISHOP_PASS, square |-> 49, blockers |-> {21, 28, 40}],
   [pass |-> ROOK_PASS, square |-> 56, blockers |-> {16, 57}],
   [pass |-> ROOK_PASS, square |-> 28, blockers |-> {0, 12, 24, 29, 52}]}
  \cup {[pass |-> ps[1], square |-> ps[2], blockers |-> b] :
          ps \in LookupSquares, b \in SUBSET OccupiedSquares}
WatchedSlots == {magic_lookup_index(l.pass, l.square, l.blockers) : l \in MagicLookups}

InitMagic ==
  /\ board = Board_new
  /\ status = "new"
  /\ last = [op |-> "new", mv |-> NoMove, prev |-> Board_new]
  /\ ply = 0
  /\ castle_rights = CastleRights_null
  /\ move_list = <<>>
  /\ call = [op |-> "gen", pass |-> ROOK_PASS, square |-> 0,
             attacks |-> [i \in WatchedSlots |-> EMPTY], replaced |-> {}]

\* The index written at by each iteration of the inner loop for one square.
gen_indices(bmagics, square, mask) ==
  [index \in 0 .. ((2 ^ bmagics.shift) - 1) |->
     BlackMagics_magic_index(bmagics, square, set_blockers_of(mask, index))]
\* The attack sets the iterations in hits write at slot i, in a set.
gen_written(walks, square, mask, indices, hits, i) ==
  {Slider_moves(walks, square, set_blockers_of(mask, index)) :
     index \in {h \in hits : indices[h] = i}}
\* What slot i holds after the loop: the write of the last iteration at it.
gen_last(walks, square, mask, indices, hits, i) ==
  Slider_moves(walks, square,
    set_blockers_of(mask, CHOOSE index \in hits :
                            /\ indices[index] = i
                            /\ \A h \in hits : indices[h] = i => h <= index))

\* attacks[index] = slider.moves(square, blockers) for every index of one
\* square, and the loop counters of BlackMagics::gen and build.rs.
GenWrites(pass, square, mask, indices, hits) ==
  call' = [op |-> IF \E index \in DOMAIN indices : indices[index] >= TABLE_SIZE THEN "panic"
                  ELSE IF square = 63 /\ pass = BISHOP_PASS THEN "built"
                  ELSE "gen",
           pass |-> IF square = 63 THEN BISHOP_PASS ELSE pass,
           square |-> (square + 1) % NUM_SQUARES,
           attacks |-> [i \in WatchedSlots |->
                          IF \E h \in hits : indices[h] = i
                            THEN gen_last(GenPasses[pass].walks, square, mask, indices, hits, i)
                            ELSE call.attacks[i]],
           replaced |-> {i \in WatchedSlots :
                           Cardinality(gen_written(GenPasses[pass].walks, square, mask,
                                                   indices, hits, i)
                                         \cup ({call.attacks[i]} \ {EMPTY})) > 1}]
GenHits(pass, square, mask, indices) ==
  GenWrites(pass, square, mask, indices,
            {index \in DOMAIN indices : indices[index] \in WatchedSlots})
GenSquare(pass, square, mask) ==
  GenHits(pass, square, mask, gen_indices(GenPasses[pass].bmagics, square, mask))
Gen ==
  /\ call.op = "gen"
  /\ GenSquare(call.pass, call.square,
               Iter(relevant_blockers(GenPasses[call.pass].walks, call.square)))
  /\ UNCHANGED game_vars
  /\ UNCHANGED <<castle_rights, move_list>>

\* SLIDER_ATTACKS.get_unchecked(magic_index(...)): a read past the table is
\* undefined behaviour and may yield any bitboard.
LookupRead(l, slot) ==
  \E attack \in IF slot < TABLE_SIZE THEN {call.attacks[slot]} ELSE {EMPTY, Squares} :
    call' = [op |-> "lookup", pass |-> l.pass, square |-> l.square, blockers |-> l.blockers,
             slot |-> slot, attack |-> attack]
Lookup ==
  /\ call.op = "built"
  /\ \E l \in MagicLookups : LookupRead(l, magic_lookup_index(l.pass, l.square, l.blockers))
  /\ UNCHANGED game_vars
  /\ UNCHANGED <<castle_rights, move_list>>

NextMagic == Gen \/ Lookup
SpecMagic == InitMagic /\ [][NextMagic]_vars

(***************************************************************************)
(* The value types on their own.  A CastleRights value starts as any of    *)
(* the 16 sets of rights and is updated by moves between the home squares  *)
(* of the kings and rooks and a few other squares (B1, D4, H5, E6).        *)
(***************************************************************************)
UnitInit(op) ==
  /\ board = Board_new
  /\ status = "new"
  /\ last = [op |-> "new", mv |-> NoMove, prev |-> Board_new]
  /\ ply = 0
  /\ call = [op |-> op]

UpdateSquares == {A1, E1, H1, A8, E8, H8, 1, 27, 39, 44}

InitCastle ==
  /\ UnitInit("CastleRights")
  /\ castle_rights \in 0 .. (NUM_CASTLING_RIGHTS - 1)
  /\ move_list = <<>>

CastleUpdate ==
  /\ \E src \in UpdateSquares, dest \in UpdateSquares :
       /\ castle_rights' = CastleRights_update(castle_rights, src, dest)
       /\ call' = [op |-> "update", src |-> src, dest |-> dest, prev |-> castle_rights]
  /\ UNCHANGED <<move_list, board, status, last, ply>>

NextCastle == CastleUpdate

SpecCastle == InitCastle /\ [][NextCastle]_vars

\* A MoveList on its own, seen as the slice of its first len moves: it starts
\* empty and is pushed to and cleared.  The pushes are of one quiet move,
\* except for the first MaxVaried of a list and the pushes at and next to the
\* capacity, which are of either move.
PushMoves == {Move_new(12, 20, Quiet), Move_new(51, 35, DoublePawn)}

InitMoveList ==
  /\ UnitInit("MoveList")
  /\ castle_rights = CastleRights_null
  /\ move_list = <<>>

Push ==
  /\ \E mv \in PushMoves :
       /\ \/ Len(move_list) < MaxVaried
          \/ Len(move_list) >= MAX_MOVES - 1
          \/ mv = Move_new(12, 20, Quiet)
       /\ move_list' = MoveList_push(move_list, mv)
       /\ call' = [op |-> "push", mv |-> mv, prev |-> move_list]
  /\ UNCHANGED <<castle_rights, board, status, last, ply>>

Clear ==
  /\ move_list' = MoveList_clear(move_list)
  /\ call' = [op |-> "clear", mv |-> NoMove, prev |-> move_list]
  /\ UNCHANGED <<castle_rights, board, status, last, ply>>

NextMoveList == Push \/ Clear

SpecMoveList == InitMoveList /\ [][NextMoveList]_vars

(***************************************************************************)
(* Properties.  Generated is the move list of the current position.        *)
(***************************************************************************)
Generated == gen_moves(ALL_MOVES, board)
GeneratedSet == LET list == Generated IN {list[i] : i \in 1 .. Len(list)}

\* Mailbox and bitboards describe the same board.
Consistent(b) ==
  \A s \in Squares :
    IF b.piece_map[s] = NoPiece
      THEN /\ \A t \in PAWN .. KING : s \notin b.pieces_bitboard[t]
           /\ \A c \in {White, Black} : s \notin b.sides_bitboard[c]
      ELSE /\ \A t \in PAWN .. KING :
                s \in b.pieces_bitboard[t] <=> t = piece_index(b.piece_map[s])
           /\ \A c \in {White, Black} :
                s \in b.sides_bitboard[c] <=> c = piece_color(b.piece_map[s])

OneKingEach(b) ==
  \A c \in {White, Black} : Cardinality(kings(b) \cap b.sides_bitboard[c]) = 1

\* The Position invariants other than the digest.
PositionInvariants(b) ==
  /\ OneKingEach(b)
  /\ Consistent(b)
  /\ b.checkers = RuleCheckers(b)
  /\ b.enpassant_square # NoSquare => rank(b.enpassant_square) \in {2, 5}

\* The digest of the fields of b, with the side key present when keyed_side
\* is to move.
ZobristOf(b, keyed_side) ==
  {KEY_PIECE_SQUARE(b.piece_map[s], s) : s \in {q \in Squares : b.piece_map[q] # NoPiece}}
    \cup {KEY_CASTLE(b.castling)}
    \cup (IF b.enpassant_square # NoSquare THEN {KEY_ENPASSANT(b.enpassant_square)} ELSE {})
    \cup (IF b.side = keyed_side THEN {KEY_SIDE} ELSE {})

\* The mover's king is not attacked once mv is made.
LeavesKingSafe(b, mv) ==
  LET made == make_move(b, mv, FALSE)
  IN ~made.panic /\ ~RuleKingAttacked(made.board.piece_map, b.side)

\* C1: in every position that satisfies the Position invariants, parsed or
\* made by make_move, every move of gen_moves::<ALL_MOVES> is legal: once
\* it is made, the king of the side that moved is attacked by no piece.
C1_LegalityClosure ==
  (status = "ok" /\ PositionInvariants(board))
    => \A mv \in GeneratedSet : LeavesKingSafe(board, mv)

\* C2: in every position of a game from the standard start position the
\* moves of gen_moves::<ALL_MOVES> are exactly the rule-legal moves of the
\* side to move, and the start position has 20 of them.
C2_GeneratedEqualsLegal ==
  status = "ok"
    => /\ GeneratedSet = RuleLegalMoves(board)
       /\ to_fen(board) = FEN_DEFAULT => Len(Generated) = 20

\* A made position where an en passant capture and a castling move are both
\* generated.
C2_Witness ==
  /\ status = "ok"
  /\ last.op = "make_move"
  /\ \E mv \in GeneratedSet : get_type(mv) = EnPassant
  /\ \E mv \in GeneratedSet : get_type(mv) = KingCastle
  /\ GeneratedSet = RuleLegalMoves(board)

\* C3: after make_move and null_move calls from a parsed position, every
\* square holds in the mailbox exactly the piece whose type and side
\* bitboards contain it, and an empty mailbox square is in no bitboard.
C3_MailboxBitboardConsistency == status = "ok" => Consistent(board)

\* C4: in every position of a game from the standard start position, null
\* moves included, each side has exactly one king and no generated move
\* captures a king.
C4_SingleKings ==
  status = "ok"
    => /\ OneKingEach(board)
       /\ \A mv \in GeneratedSet :
            is_capture(mv) => board.piece_map[get_dest(mv)] \notin {KING, 6 + KING}

\* A position made by a capture, with captures to choose from again.
C4_Witness ==
  /\ status = "ok"
  /\ last.op = "make_move"
  /\ is_capture(last.mv)
  /\ OneKingEach(board)
  /\ \E mv \in GeneratedSet : is_capture(mv)

\* C5: in every position of a game from the standard start position the
\* cached checkers are attackers(king square of the side to move, occupied
\* squares), the enemy pieces that attack that king; so also after
\* null_move, which stores EMPTY.
C5_CheckersAreAttackers ==
  status = "ok"
    => /\ board.checkers
            = attackers(board, to_square(allied_king(board)), combined_bitboard(board))
       /\ board.checkers = RuleCheckers(board)

\* A made position whose side to move is in check.
C5_Witness ==
  /\ status = "ok"
  /\ last.op = "make_move"
  /\ board.checkers # EMPTY
  /\ board.checkers = RuleCheckers(board)

\* The position null_move returns has no checkers, cached or real.
C5_NullMoveWitness ==
  /\ status = "ok"
  /\ last.op = "null_move"
  /\ board.checkers = EMPTY
  /\ RuleCheckers(board) = EMPTY

\* C6: after make_move and null_move calls from a parsed position, the
\* incrementally kept zobrist is the zobrist from_str computes from scratch
\* for to_fen of the position, wherever from_str accepts that text.
C6_ZobristFromScratch ==
  (status = "ok" /\ from_str(to_fen(board)).ok)
    => from_str(to_fen(board)).board.zobrist = board.zobrist

\* C7: the zobrist of every position from from_str, make_move or null_move
\* is the XOR of the piece keys, the castling key, the en passant key when a
\* square is present, and the side key exactly when Black is to move.
C7_ZobristBlackSideKey == status = "ok" => board.zobrist = ZobristOf(board, Black)

\* The code's composition: in games from the standard start position the
\* side key is in the zobrist exactly when White is to move.
ZobristWhiteSideKey == status = "ok" => board.zobrist = ZobristOf(board, White)

\* C8: for every position of a game of any length from the standard start
\* position, from_str(to_fen(P)) succeeds and equals P in every field.
C8_FenRoundTrip ==
  status = "ok"
    => /\ from_str(to_fen(board)).ok
       /\ from_str(to_fen(board)).board = board

\* C9: after make_move calls from a parsed position the halfmove clock
\* stays within 0..=100.
C9_HalfmoveClockRange == status = "ok" => board.fifty_move \in 0 .. MAX_HALFMOVE

\* C10: make_move sets the halfmove clock to 0 for a capture or a pawn move
\* and to P.fifty_move + 1 for every other move.
C10_HalfmoveClockLaw ==
  last.op = "make_move"
    => /\ status = "ok"
       /\ board.fifty_move
            = IF is_capture(last.mv)
                   \/ piece_index(piece_on(last.prev, get_src(last.mv))) = PAWN
                THEN 0
                ELSE last.prev.fifty_move + 1

\* C11: make_move raises the fullmove number by exactly one, saturating at
\* 65535, when Black was to move and leaves it unchanged when White was to
\* move; the fullmove number is at least 1 and never decreases.
C11_FullmoveLaw ==
  /\ status = "ok" => board.full_move >= 1
  /\ (status = "ok" /\ last.op = "make_move") =>
       /\ board.full_move =
            IF last.prev.side = Black
              THEN (IF last.prev.full_move = U16_MAX THEN U16_MAX ELSE last.prev.full_move + 1)
              ELSE last.prev.full_move
       /\ board.full_move >= last.prev.full_move

C11_Witness ==
  /\ status = "ok"
  /\ last.op = "make_move"
  /\ last.prev.side = Black
  /\ last.prev.full_move = U16_MAX
  /\ board.full_move = U16_MAX

\* C12: after make_move(P, m) the en-passant square is the square directly in
\* front of m's source, seen from the mover, exactly when m is a DoublePawn
\* move, and None after every other move; so after a generated move an
\* en-passant square is on rank 3 with Black to move or on rank 6 with White
\* to move, and the very next move or null move clears it.
C12_EnPassantLaw ==
  (status = "ok" /\ last.op \in {"make_move", "null_move"}) =>
    LET src == get_src(last.mv)
        mover == last.prev.side
        ahead == from_file_rank(file(src), IF mover = White THEN rank(src) + 1 ELSE rank(src) - 1)
    IN /\ last.op = "make_move" =>
            /\ (board.enpassant_square # NoSquare) <=> (get_type(last.mv) = DoublePawn)
            /\ get_type(last.mv) = DoublePawn => board.enpassant_square = ahead
            /\ board.enpassant_square # NoSquare =>
                 \/ rank(board.enpassant_square) = 2 /\ board.side = Black
                 \/ rank(board.enpassant_square) = 5 /\ board.side = White
       /\ last.op = "null_move" => board.enpassant_square = NoSquare
       /\ last.prev.enpassant_square # NoSquare =>
            board.enpassant_square # last.prev.enpassant_square

C12_Witness ==
  /\ status = "ok"
  /\ last.op = "make_move"
  /\ get_type(last.mv) = DoublePawn
  /\ last.prev.side = White
  /\ board.side = Black
  /\ rank(board.enpassant_square) = 2
  /\ board.enpassant_square = get_src(last.mv) + 8

\* C13: CastleRights::update(src, dest) is rights AND mask[src] AND
\* mask[dest], where only A1 (clears WQ), E1 (WK and WQ), H1 (WK), A8 (BQ),
\* E8 (BK and BQ) and H8 (BK) have a mask other than all-ones; so a right is
\* never regained once cleared, and it is cleared by the first move whose
\* source or destination is the home square of that side's king or of the
\* matching rook.
HasRight(r, bit) == (r \div bit) % 2 = 1
RightHomes(bit) ==
  CASE bit = CASTLE_WK_MASK -> {E1, H1}
    [] bit = CASTLE_WQ_MASK -> {E1, A1}
    [] bit = CASTLE_BK_MASK -> {E8, H8}
    [] bit = CASTLE_BQ_MASK -> {E8, A8}
RightBits == {CASTLE_WK_MASK, CASTLE_WQ_MASK, CASTLE_BK_MASK, CASTLE_BQ_MASK}

C13_CastleRightsUpdate ==
  /\ \A s \in Squares, bit \in RightBits :
       HasRight(CASTLE_RIGHTS_MASK[s], bit) <=> s \notin RightHomes(bit)
  /\ \A s \in Squares : CASTLE_RIGHTS_MASK[s] \in 0 .. ALL_CASTLE
  /\ call.op = "update" =>
       /\ castle_rights \in 0 .. ALL_CASTLE
       /\ \A bit \in RightBits :
            HasRight(castle_rights, bit) <=>
              /\ HasRight(call.prev, bit)
              /\ call.src \notin RightHomes(bit)
              /\ call.dest \notin RightHomes(bit)

C13_Witness ==
  /\ call.op = "update"
  /\ call.prev = ALL_CASTLE
  /\ call.src = 39
  /\ call.dest = H1
  /\ castle_rights = ALL_CASTLE - CASTLE_WK_MASK

\* C14: gen_moves::<QUIET_MOVES>(P) and gen_moves::<TACTICAL_MOVES>(P) are
\* disjoint and their union is exactly gen_moves::<ALL_MOVES>(P) (40 + 8 = 48
\* in kiwipete); queen promotions, en-passant captures and non-promoting
\* captures appear only under TACTICAL_MOVES, and under-promotions, castling
\* and the other non-capturing moves only under QUIET_MOVES.
SeqSet(list) == {list[i] : i \in 1 .. Len(list)}
TacticalTypes == {Capture, EnPassant, PromotionQueen, CapPromoQueen}
QuietTypes ==
  {Quiet, DoublePawn, KingCastle, QueenCastle,
   PromotionKnight, PromotionBishop, PromotionRook,
   CapPromoKnight, CapPromoBishop, CapPromoRook}
Partition(quiet, tactical, all) ==
  /\ SeqSet(quiet) \cap SeqSet(tactical) = {}
  /\ SeqSet(quiet) \cup SeqSet(tactical) = SeqSet(all)
  /\ Len(quiet) + Len(tactical) = Len(all)
  /\ \A i \in 1 .. Len(tactical) : get_type(tactical[i]) \in TacticalTypes
  /\ \A i \in 1 .. Len(quiet) : get_type(quiet[i]) \in QuietTypes

C15_QuietMovesNonCapturing ==
  status = "ok" =>
    LET quiet == gen_moves(QUIET_MOVES, board)
    IN \A i \in 1 .. Len(quiet) :
         /\ ~is_capture(quiet[i])
         /\ piece_on(board, get_dest(quiet[i])) = NoPiece

\* C16: find_move(s) returns Some(m) exactly when m is a move generated for
\* the position whose UCI text (source square, destination square and, for a
\* promotion, one lower-case letter q, r, b or n) equals s, and None
\* otherwise; make_uci_move(s) returns Ok(make_move(m)) for that m, and Err
\* without a new position when no generated move matches s.
UciText(mv) ==
  LET s == mv % 64
      d == (mv \div 64) % 64
      t == mv \div 4096
  IN <<FileChars[(s % 8) + 1], RankChars[(s \div 8) + 1],
       FileChars[(d % 8) + 1], RankChars[(d \div 8) + 1]>>
     \o (IF t >= PromotionKnight THEN <<(<<"n", "b", "r", "q">>)[(t % 4) + 1]>> ELSE <<>>)
FoundByText(b, list) ==
  \A i \in 1 .. Len(list) : find_move(b, UciText(list[i])) = list[i]
UciOutcome(list, text) ==
  LET hits == {list[i] : i \in {j \in 1 .. Len(list) : UciText(list[j]) = text}}
  IN IF hits = {}
       THEN /\ last.op = "make_uci_move_err"
            /\ last.mv = NoMove
            /\ board = last.prev
       ELSE /\ last.op = "make_move"
            /\ hits = {last.mv}
            /\ status = "ok"
            /\ board = make_move(last.prev, last.mv, TRUE).board

C16_FindMoveLaw ==
  /\ status = "ok" => FoundByText(board, gen_moves(ALL_MOVES, board))
  /\ call.op = "make_uci_move" => UciOutcome(gen_moves(ALL_MOVES, last.prev), call.text)

\* C17: null_move on a position with no checkers flips the side to move,
\* sets the en-passant square to None and checkers to EMPTY, and leaves the
\* placement, the castling rights and both counters unchanged; the zobrist
\* changes by the side key and by the key of the removed en-passant square
\* only.  null_move applied twice to a position without an en-passant square
\* returns a Board equal to the original.
NullMoveFrame(p, n) ==
  /\ p.checkers = EMPTY
  /\ n.side = 1 - p.side
  /\ n.enpassant_square = NoSquare
  /\ n.checkers = EMPTY
  /\ n.piece_map = p.piece_map
  /\ n.pieces_bitboard = p.pieces_bitboard
  /\ n.sides_bitboard = p.sides_bitboard
  /\ n.castling = p.castling
  /\ n.fifty_move = p.fifty_move
  /\ n.full_move = p.full_move
  /\ (n.zobrist \ p.zobrist) \cup (p.zobrist \ n.zobrist)
       = {KEY_SIDE} \cup (IF p.enpassant_square = NoSquare THEN {}
                          ELSE {KEY_ENPASSANT(p.enpassant_square)})

C17_NullMoveFrame ==
  /\ (status = "ok" /\ last.op = "null_move") => NullMoveFrame(last.prev, board)
  /\ (last.op = "null_move_twice" /\ last.prev.enpassant_square = NoSquare) =>
       /\ status = "ok"
       /\ board = last.prev

C17_Witness ==
  /\ status = "ok"
  /\ last.op = "null_move_twice"
  /\ last.prev.enpassant_square = NoSquare
  /\ last.prev.castling = ALL_CASTLE
  /\ board = last.prev

\* C18: for any sequence of push and clear on a MoveList, len never exceeds
\* MAX_MOVES (252 on a 64-bit target); push on a full list changes neither
\* len nor any stored move; push on a list that is not full stores the move
\* at index len, increases len by one and leaves the earlier entries
\* unchanged.
C18_MoveListCapacity ==
  /\ MAX_MOVES = 252
  /\ Len(move_list) <= MAX_MOVES
  /\ call.op = "push" =>
       IF Len(call.prev) >= MAX_MOVES
         THEN move_list = call.prev
         ELSE /\ Len(move_list) = Len(call.prev) + 1
              /\ move_list[Len(call.prev) + 1] = call.mv
              /\ \A i \in 1 .. Len(call.prev) : move_list[i] = call.prev[i]

C18_Witness ==
  /\ call.op = "push"
  /\ Len(call.prev) = MAX_MOVES
  /\ call.mv # call.prev[MAX_MOVES]
  /\ call.prev[1] # call.prev[2]
  /\ move_list = call.prev

\* C19: Move::new(s, d, t) stores s in bits 0..5, d in bits 6..11 and t in
\* bits 12..15; get_src, get_dest and get_type return s, d and t; is_capture
\* holds exactly for Capture, EnPassant and the four capture-promotions;
\* is_promotion holds exactly for the eight promotion types; and the move
\* differs from the null move (all-zero) whenever s and d differ.
BitOf(n, k) == (n \div (2 ^ k)) % 2
C19_MoveLayout ==
  call.op = "Move::new" =>
    /\ call.mv \in 0 .. 65535
    /\ \A k \in 0 .. 5 : BitOf(call.mv, k) = BitOf(call.src, k)
    /\ \A k \in 0 .. 5 : BitOf(call.mv, 6 + k) = BitOf(call.dest, k)
    /\ \A k \in 0 .. 3 : BitOf(call.mv, 12 + k) = BitOf(call.move_type, k)
    /\ get_src(call.mv) = call.src
    /\ get_dest(call.mv) = call.dest
    /\ get_type(call.mv) = call.move_type
    /\ is_capture(call.mv) <=>
         call.move_type \in {Capture, EnPassant, CapPromoKnight, CapPromoBishop,
                             CapPromoRook, CapPromoQueen}
    /\ is_promotion(call.mv) <=>
         call.move_type \in {PromotionKnight, PromotionBishop, PromotionRook, PromotionQueen,
                             CapPromoKnight, CapPromoBishop, CapPromoRook, CapPromoQueen}
    /\ call.src # call.dest => call.mv # Move_null

C19_Witness ==
  /\ call.op = "Move::new"
  /\ call.src = 55
  /\ call.dest = 62
  /\ call.move_type = CapPromoQueen
  /\ call.mv = 65463
  /\ is_capture(call.mv)
  /\ is_promotion(call.mv)

PlacementField(s) == IF split_whitespace(s) = <<>> THEN <<>> ELSE split_whitespace(s)[1]
RankBounds(field) == <<0>> \o Iter({i \in 1 .. Len(field) : field[i] = "/"}) \o <<Len(field) + 1>>
RankTexts(field) ==
  [k \in 1 .. (Len(RankBounds(field)) - 1) |->
     SubSeq(field, RankBounds(field)[k] + 1, RankBounds(field)[k + 1] - 1)]
RECURSIVE RankSquares(_)
RankSquares(rank_text) ==
  IF rank_text = <<>> THEN 0
  ELSE RankSquares(Tail(rank_text))
         + (IF digit_value(Head(rank_text)) \in 1 .. 8 THEN digit_value(Head(rank_text))
            ELSE 1)
WellFormedPlacement(field) ==
  /\ Len(RankTexts(field)) = 8
  /\ \A k \in 1 .. Len(RankTexts(field)) :
       /\ RankSquares(RankTexts(field)[k]) = 8
       /\ \A i \in 1 .. Len(RankTexts(field)[k]) :
            \/ digit_value(RankTexts(field)[k][i]) \in 1 .. 8
            \/ \E p \in 1 .. Len(PieceChars) : PieceChars[p] = RankTexts(field)[k][i]

\* C21: from_str returns Ok only for a text whose piece placement field is
\* exactly eight ranks separated by "/", each rank's piece letters and digit
\* runs naming exactly 8 squares; fewer or more than eight ranks are
\* rejected.
C21_PlacementEightRanks ==
  (last.op = "from_str" /\ call.op = "from_str" /\ status = "ok")
    => WellFormedPlacement(PlacementField(call.text))

\* The other pieces of the mover's type with a rule-legal move to the
\* mover's destination, and the disambiguator the rule gives: nothing when
\* there is none, the file letter when none of them stands on the mover's
\* file, else the rank digit when none stands on the mover's rank, else
\* both.
SanRivals(b, mv) ==
  {get_src(m) : m \in {c \in RuleLegalMoves(b) :
                         /\ get_dest(c) = get_dest(mv)
                         /\ get_src(c) # get_src(mv)
                         /\ piece_on(b, get_src(c)) = piece_on(b, get_src(mv))}}
SanRuleDisambiguator(src, rivals) ==
  IF rivals = {} THEN <<>>
  ELSE IF \A r \in rivals : file(r) # file(src) THEN <<FileChars[file(src) + 1]>>
  ELSE IF \A r \in rivals : rank(r) # rank(src) THEN <<RankChars[rank(src) + 1]>>
  ELSE <<FileChars[file(src) + 1], RankChars[rank(src) + 1]>>
SanRuleText(b, mv) ==
  <<PieceTypeChars[piece_index(piece_on(b, get_src(mv))) + 1]>>
    \o SanRuleDisambiguator(get_src(mv), SanRivals(b, mv))
    \o (IF is_capture(mv) THEN <<"x">> ELSE <<>>)
    \o square_to_str(get_dest(mv))

\* C22: for a legal move of a piece other than a pawn that is not castling,
\* to_san writes a disambiguator iff another piece of the same type has a
\* legal move to the same destination; it is the source file letter alone
\* when no such piece stands on the mover's file, else the source rank digit
\* alone when none stands on the mover's rank, else file letter and rank
\* digit.
C22_SanDisambiguation ==
  (call.op = "to_san" /\ status = "ok"
     /\ piece_index(piece_on(board, get_src(call.mv))) # PAWN /\ ~is_castle(call.mv))
    => \E suffix \in {<<>>, <<"+">>, <<"#">>} :
         call.san = SanRuleText(board, call.mv) \o suffix


\* The moves of the list that GenMoves kept.
Emitted == {move_list[i] : i \in 1 .. Len(move_list)}

HomeRank(b) == IF b.side = White THEN 0 ELSE 56

\* No piece of the other side attacks sq.
Unattacked(b, sq) == RuleAttackersOf(b.piece_map, sq, 1 - b.side) = {}

\* The rule for one wing: the files that must be empty and the files the
\* king crosses or lands on.
CastleRule(b, all_moves, right_bit, empties, crossed) ==
  /\ all_moves \in {QUIET_MOVES, ALL_MOVES}
  /\ HasRight(b.castling, right_bit)
  /\ b.checkers = EMPTY
  /\ \A f \in empties : b.piece_map[HomeRank(b) + f] = NoPiece
  /\ \A f \in crossed : Unattacked(b, HomeRank(b) + f)

\* C23: a KingCastle (QueenCastle) move is emitted for the side to move
\* exactly when QUIET_MOVES is selected, the right of that wing is set,
\* checkers is empty, files F and G (B, C and D) of the home rank are empty,
\* and neither file F nor G (D nor C) of the home rank is attacked by the
\* other side; an attack on the B-file square does not matter.  The move
\* emitted is the king's, from file E to file G (C).
C23_CastlingEmitted ==
  last.op = "gen_moves"
    => /\ (\E mv \in Emitted : get_type(mv) = KingCastle)
            <=> CastleRule(board, call.all_moves,
                           IF board.side = White THEN CASTLE_WK_MASK ELSE CASTLE_BK_MASK,
                           {5, 6}, {5, 6})
       /\ (\E mv \in Emitted : get_type(mv) = QueenCastle)
            <=> CastleRule(board, call.all_moves,
                           IF board.side = White THEN CASTLE_WQ_MASK ELSE CASTLE_BQ_MASK,
                           {1, 2, 3}, {2, 3})
       /\ \A mv \in Emitted :
            /\ get_type(mv) = KingCastle
                 => mv = Move_new(HomeRank(board) + 4, HomeRank(board) + 6, KingCastle)
            /\ get_type(mv) = QueenCastle
                 => mv = Move_new(HomeRank(board) + 4, HomeRank(board) + 2, QueenCastle)

\* Queenside castling is emitted while the B-file square is attacked.
C23_Witness ==
  /\ last.op = "gen_moves"
  /\ \E mv \in Emitted : get_type(mv) = QueenCastle
  /\ ~Unattacked(board, HomeRank(board) + 1)

\* The segments from the king of the side to move to an enemy bishop or
\* queen on a shared diagonal (rook or queen on a shared rank or file) with
\* only pieces of the side to move strictly between, as many as counts
\* allows; each segment runs up to and includes the attacker.
RuleSegments(b, diagonal, counts) ==
  LET pm == b.piece_map
      Aligned(k, a) ==
        IF diagonal THEN Abs(file(a) - file(k)) = Abs(rank(a) - rank(k))
        ELSE file(a) = file(k) \/ rank(a) = rank(k)
      Slides(a) == pm[a] % 6 \in {IF diagonal THEN BISHOP ELSE ROOK, QUEEN}
      Between(k, a) == {s \in RuleBetweenTable[k][a] : pm[s] # NoPiece}
  IN {RuleBetweenTable[k][a] \cup {a} :
        <<k, a>> \in {p \in RuleKingSquares(pm, b.side) \X Squares :
                        /\ p[1] # p[2]
                        /\ RuleHas(pm, p[2], 1 - b.side)
                        /\ Slides(p[2])
                        /\ Aligned(p[1], p[2])
                        /\ Cardinality(Between(p[1], p[2])) \in counts
                        /\ \A s \in Between(p[1], p[2]) : RuleHas(pm, s, b.side)}}
\* A pin: exactly one piece between.
RulePinSegments(b, diagonal) == RuleSegments(b, diagonal, {1})
RulePinRays(b, diagonal) == UNION RulePinSegments(b, diagonal)

\* The king of the side to move is attacked along a line by a bishop, rook
\* or queen of the other side when the occupied squares are those of occ.
RuleSliderAttack(b, occ) ==
  \E k \in RuleKingSquares(b.piece_map, b.side), a \in Squares :
    /\ a # k
    /\ RuleHas(b.piece_map, a, 1 - b.side)
    /\ RuleBetweenTable[k][a] \cap occ = {}
    /\ \/ /\ b.piece_map[a] % 6 \in {ROOK, QUEEN}
          /\ (file(a) = file(k) \/ rank(a) = rank(k))
       \/ /\ b.piece_map[a] % 6 \in {BISHOP, QUEEN}
          /\ Abs(file(a) - file(k)) = Abs(rank(a) - rank(k))

\* The conditions of an en passant capture by the piece on src other than
\* the number of checkers.
EnPassantRule(b, all_moves, src) ==
  LET pm == b.piece_map
      dir == IF b.side = White THEN 1 ELSE -1
      dest == b.enpassant_square
      victim == dest - (8 * dir)
      occupied == {s \in Squares : pm[s] # NoPiece}
  IN /\ all_moves \in {TACTICAL_MOVES, ALL_MOVES}
     /\ dest # NoSquare
     /\ pm[src] = (b.side * 6) + PAWN
     /\ rank(dest) = rank(src) + dir
     /\ Abs(file(dest) - file(src)) = 1
     /\ src \notin RulePinRays(b, FALSE)
     /\ ~RuleSliderAttack(b, (occupied \ {src, victim}) \cup {dest})

EnPassantEmitted(src) ==
  \E mv \in Emitted : get_type(mv) = EnPassant /\ get_src(mv) = src

\* C24: an en passant capture by a pawn of the side to move is emitted
\* exactly when TACTICAL_MOVES is selected, the en passant square is set,
\* the pawn attacks it and is on no orthogonal pin ray, and with both pawns
\* taken off and the capturing pawn put on the en passant square no enemy
\* rook or queen reaches the king along a rank or file and no enemy bishop
\* or queen along a diagonal.
C24_EnPassantEmitted ==
  last.op = "gen_moves"
    => \A src \in Squares :
         EnPassantEmitted(src) <=> EnPassantRule(board, call.all_moves, src)

\* C24 with the number of checkers: the capture is emitted exactly when, in
\* addition, at most one piece gives check; every en passant move emitted
\* lands on the en passant square.
C24_EnPassantEmittedUnlessDoubleCheck ==
  last.op = "gen_moves"
    => /\ \A src \in Squares :
            EnPassantEmitted(src)
              <=> /\ EnPassantRule(board, call.all_moves, src)
                  /\ Cardinality(board.checkers) < 2
       /\ \A mv \in Emitted :
            get_type(mv) = EnPassant => get_dest(mv) = board.enpassant_square

\* The capture is left out because taking both pawns off the diagonal
\* uncovers a bishop, while another position's capture is emitted.
C24_Witness ==
  /\ last.op = "gen_moves"
  /\ to_fen(board) = FEN_EP_DIAGONAL
  /\ call.all_moves = TACTICAL_MOVES
  /\ board.enpassant_square # NoSquare
  /\ \E src \in Squares :
       /\ board.piece_map[src] = (board.side * 6) + PAWN
       /\ src \in get_pawn_attacks(1 - board.side, board.enpassant_square)
       /\ src \notin RulePinRays(board, FALSE)
       /\ ~EnPassantEmitted(src)
       /\ board.checkers = EMPTY

\* The squares between the king of the side to move and the pieces that
\* give check, together with the squares of those pieces.
RuleCheckMask(b) ==
  UNION {RuleBetweenTable[k][c] \cup {c} :
           <<k, c>> \in RuleKingSquares(b.piece_map, b.side) \X RuleCheckers(b)}

IsKingMove(b, mv) == b.piece_map[get_src(mv)] % 6 = KING

RulePinned(b, diagonal) ==
  {s \in RulePinRays(b, diagonal) : RuleHas(b.piece_map, s, b.side)}

Friendly(b) == {s \in Squares : RuleHas(b.piece_map, s, b.side)}

\* C26: the pieces of the side to move on the diagonal (orthogonal) pin
\* rays of pinners are exactly the pieces that are the only piece between
\* their king and an enemy bishop or queen on a shared diagonal (rook or
\* queen on a shared rank or file); in R2bk3/5p2/4r1B1/1Q6/8/4Q3/4R3/2K5 b
\* they are the pieces on f7, e6 and d8, g6 is on the diagonal rays, c8 and
\* e3 on the orthogonal rays and e2 on neither.
C26_PinnedPieces ==
  last.op = "pinners"
    => /\ Friendly(board) \cap call.diagonal_pins = RulePinned(board, TRUE)
       /\ Friendly(board) \cap call.linear_pins = RulePinned(board, FALSE)
       /\ to_fen(board) = FEN_PINS
            => /\ Friendly(board) \cap (call.diagonal_pins \cup call.linear_pins)
                    = {53, 44, 59}
               /\ 46 \in call.diagonal_pins
               /\ {58, 20} \subseteq call.linear_pins
               /\ 12 \notin call.diagonal_pins \cup call.linear_pins

\* The pin rays of the position with three pins.
C26_Witness ==
  /\ last.op = "pinners"
  /\ to_fen(board) = FEN_PINS
  /\ RulePinned(board, TRUE) = {53}
  /\ RulePinned(board, FALSE) = {44, 59}

\* C27: the diagonal (orthogonal) pin rays of pinners are the union of the
\* segments from the king to an enemy bishop or queen (rook or queen) on a
\* shared line, attacker's square included, for exactly the attackers with
\* one piece of the king's side and nothing else strictly between.
C27_PinSegments ==
  last.op = "pinners"
    => /\ call.diagonal_pins = RulePinRays(board, TRUE)
       /\ call.linear_pins = RulePinRays(board, FALSE)

\* C27 with the attackers that give check: the segments are those with one
\* piece of the king's side or no piece at all strictly between.
C27_PinOrCheckSegments ==
  last.op = "pinners"
    => /\ call.diagonal_pins = UNION RuleSegments(board, TRUE, {0, 1})
       /\ call.linear_pins = UNION RuleSegments(board, FALSE, {0, 1})

\* A pin of each kind and no check.
C27_Witness ==
  /\ last.op = "pinners"
  /\ board.checkers = EMPTY
  /\ call.diagonal_pins # EMPTY
  /\ call.linear_pins # EMPTY
  /\ call.diagonal_pins = RulePinRays(board, TRUE)
  /\ call.linear_pins = RulePinRays(board, FALSE)

\* Every right that is set has the king and the rook it names at home.
RightsAtHome(b) ==
  \A bit \in RightBits :
    HasRight(b.castling, bit)
      => LET color == IF bit \in {CASTLE_WK_MASK, CASTLE_WQ_MASK} THEN White ELSE Black
         IN \A s \in RightHomes(bit) :
              b.piece_map[s] = (color * 6) + (IF file(s) = 4 THEN KING ELSE ROOK)

\* C28: from a position in which every castling right that is set has that
\* side's king on e1/e8 and a rook of that side on the matching corner,
\* every position reached by generated moves has the same property, and
\* make_move of a generated castling move finds a rook of the mover on the
\* corner and puts it next to the king.
C28_CastlingRightsAtHome ==
  /\ status = "ok" => RightsAtHome(board)
  /\ (last.op = "make_move" /\ is_castle(last.mv))
       => LET corner == IF file(get_dest(last.mv)) = 6 THEN get_dest(last.mv) + 1
                        ELSE get_dest(last.mv) - 2
              beside == IF file(get_dest(last.mv)) = 6 THEN get_dest(last.mv) - 1
                        ELSE get_dest(last.mv) + 1
              rook == (last.prev.side * 6) + ROOK
          IN /\ status = "ok"
             /\ last.prev.piece_map[corner] = rook
             /\ board.piece_map[corner] = NoPiece
             /\ board.piece_map[beside] = rook

\* A castling move made as the second move of a game, on a position where a
\* right was lost on the first move.
C28_Witness ==
  /\ status = "ok"
  /\ ply = 2
  /\ last.op = "make_move"
  /\ is_castle(last.mv)
  /\ last.prev.castling # ALL_CASTLE
  /\ last.prev.castling # 0
  /\ board.castling # 0

Selections == {QUIET_MOVES, TACTICAL_MOVES, ALL_MOVES}

\* The move names a piece of the side to move, does not land on a piece of
\* that side, and has its CAP bit set exactly when it takes a piece.
WellFormedMove(b, mv) ==
  /\ RuleHas(b.piece_map, get_src(mv), b.side)
  /\ ~RuleHas(b.piece_map, get_dest(mv), b.side)
  /\ is_capture(mv)
       <=> (RuleHas(b.piece_map, get_dest(mv), 1 - b.side) \/ get_type(mv) = EnPassant)
  /\ get_type(mv) = EnPassant => b.piece_map[get_dest(mv)] = NoPiece

\* Every square make_move takes a piece from holds one, and every square
\* it puts a piece on is empty once the captured piece is taken off.
CleanlyMade(b, mv) ==
  LET pm == b.piece_map
      corners == get_rook_castling(get_dest(mv))
      removed ==
        {get_src(mv)}
          \cup (IF get_type(mv) = EnPassant THEN {sq_forward(get_dest(mv), Not(b.side))}
                ELSE IF is_castle(mv) THEN {corners[1]}
                ELSE IF is_capture(mv) THEN {get_dest(mv)}
                ELSE {})
      placed == {get_dest(mv)} \cup (IF is_castle(mv) THEN {corners[2]} ELSE {})
  IN /\ \A sq \in removed : pm[sq] # NoPiece
     /\ \A sq \in placed : pm[sq] = NoPiece \/ sq \in removed

MoveKey(mv) ==
  <<get_src(mv), get_dest(mv),
    IF is_promotion(mv) THEN piece_index(get_prom(mv, White)) ELSE NoPiece>>

\* C30: enumerate_legal_moves::<ALL_MOVES> emits no move twice, and no two
\* of its moves have the same source, destination and promotion piece, so
\* no two have the same UCI text; a queen move comes from one of the
\* bishop-like and rook-like enumerations only.
C30_NoDuplicateMoves ==
  status = "ok"
    => LET list == gen_moves(ALL_MOVES, board)
       IN \A i, j \in 1 .. Len(list) :
            i # j => /\ list[i] # list[j]
                     /\ MoveKey(list[i]) # MoveKey(list[j])
                     /\ Move_to_string(list[i]) # Move_to_string(list[j])
====
